---- MODULE Spec2Model ----
(***************************************************************************)
(* SimisAI: the per-sender session orchestrator of the WhatsApp webhook    *)
(* (the in-memory Gemini variant, src/unnamed/part_000, identical in its   *)
(* session logic to src/index.js lines 470-670).                           *)
(*                                                                         *)
(* Texts are sequences of tokens.  A token is one character, or a fixed    *)
(* run of characters that no operation of the program ever splits (a       *)
(* prompt fragment, a menu, an insight sentence).  The completion marker   *)
(* and every inbound message are spelled character by character, so that   *)
(* trim, toUpperCase, includes and replace are computed, not assumed.      *)
(***************************************************************************)
EXTENDS Integers, Sequences, FiniteSets, TLC

VARIABLES
    sessions,   \* the Map `sessions`: phone -> id of its session object, 0 when absent
    objs,       \* heap of session objects {mode, history, isNew, currentCap}; history is an array id
    arrs,       \* heap of history arrays (sequences of turns)
    procs,      \* the handleMessage invocations in flight, in arrival order
    nmsgs,      \* number of inbound messages accepted so far
    fnIn,       \* input of the pure function under test (function specifications)
    fnOut,      \* its output
    fnDone,     \* whether it has been applied
    redis,      \* the keys of the Redis server, in the order they were last set
    reqs        \* the requests of the Redis-backed webhook, in arrival order

vars == <<sessions, objs, arrs, procs, nmsgs, fnIn, fnOut, fnDone, redis, reqs>>

(***************************************************************************)
(* Bounds of the model.                                                    *)
(***************************************************************************)
MaxMsgs == 3        \* inbound messages per run
MaxInFlight == 2    \* handleMessage invocations suspended at the same time
MaxLen == 6         \* length of the turn sequences given to sanitizeHistory
MaxWin == 5         \* largest window size given to sanitizeHistory
MaxPieces == 3      \* pieces a completion reply is assembled from

(***************************************************************************)
(* JavaScript values.                                                      *)
(***************************************************************************)
Null == "null"
Undefined == "undefined"
Truthy(v) == v \notin {Null, Undefined}

(***************************************************************************)
(* String operations, on sequences of tokens.                              *)
(***************************************************************************)
WhiteSpace == {" ", "\t", "\n"}

LowerCase == <<"a","b","c","d","e","f","g","h","i","j","k","l","m",
               "n","o","p","q","r","s","t","u","v","w","x","y","z">>
UpperCase == <<"A","B","C","D","E","F","G","H","I","J","K","L","M",
               "N","O","P","Q","R","S","T","U","V","W","X","Y","Z">>

UpperChar(c) ==
    IF \E i \in 1..Len(LowerCase) : LowerCase[i] = c
    THEN UpperCase[CHOOSE i \in 1..Len(LowerCase) : LowerCase[i] = c]
    ELSE c

\* String.prototype.toUpperCase
toUpperCase(s) == [i \in 1..Len(s) |-> UpperChar(s[i])]

RECURSIVE trimStart(_)
trimStart(s) ==
    IF s # <<>> /\ Head(s) \in WhiteSpace THEN trimStart(Tail(s)) ELSE s

RECURSIVE trimEnd(_)
trimEnd(s) ==
    IF s # <<>> /\ s[Len(s)] \in WhiteSpace
    THEN trimEnd(SubSeq(s, 1, Len(s) - 1))
    ELSE s

\* String.prototype.trim
trim(s) == trimEnd(trimStart(s))

\* whether pat occurs in s starting at index i (1-based)
MatchAt(s, pat, i) ==
    /\ i >= 1
    /\ i + Len(pat) - 1 <= Len(s)
    /\ SubSeq(s, i, i + Len(pat) - 1) = pat

\* String.prototype.indexOf, 1-based; 0 when pat does not occur
indexOf(s, pat) ==
    IF \E i \in 1..(Len(s) + 1) : MatchAt(s, pat, i)
    THEN CHOOSE i \in 1..(Len(s) + 1) :
            /\ MatchAt(s, pat, i)
            /\ \A j \in 1..(i - 1) : ~MatchAt(s, pat, j)
    ELSE 0

\* String.prototype.includes
includes(s, pat) == indexOf(s, pat) # 0

\* String.prototype.replace with a string pattern: the first occurrence only
replace(s, pat, by) ==
    LET i == indexOf(s, pat)
    IN  IF i = 0 THEN s
        ELSE SubSeq(s, 1, i - 1) \o by \o SubSeq(s, i + Len(pat), Len(s))

\* Array.prototype.slice(start): a negative start counts from the end, and -0 is 0
slice(a, start) ==
    LET from == IF start < 0
                THEN (IF Len(a) + start < 0 THEN 0 ELSE Len(a) + start)
                ELSE (IF start > Len(a) THEN Len(a) ELSE start)
    IN  SubSeq(a, from + 1, Len(a))

\* Array.prototype.slice(0, -1): everything but the last element
sliceButLast(a) == SubSeq(a, 1, Len(a) - 1)

(***************************************************************************)
(* Turns.                                                                  *)
(***************************************************************************)
Roles == {"user", "model"}
Turn(r, t) == [role |-> r, text |-> t]

(***************************************************************************)
(* sanitizeHistory                                                         *)
(***************************************************************************)
\* the while loop: index (0-based) of the first user turn at or after start
RECURSIVE SkipLeading(_, _)
SkipLeading(trimmed, start) ==
    IF start < Len(trimmed) /\ trimmed[start + 1].role # "user"
    THEN SkipLeading(trimmed, start + 1)
    ELSE start

\* the for loop: push each entry unless it repeats the role of the last one pushed
RECURSIVE Collapse(_, _, _)
Collapse(trimmed, i, result) ==
    IF i >= Len(trimmed) THEN result
    ELSE LET entry == trimmed[i + 1]
         IN  IF Len(result) > 0 /\ result[Len(result)].role = entry.role
             THEN Collapse(trimmed, i + 1, result)
             ELSE Collapse(trimmed, i + 1, Append(result, entry))

\* faulty variant: the sequence is not cut to the window
sanitizeHistoryNoWindow(raw, maxTurns) ==
    LET result == Collapse(raw, SkipLeading(raw, 0), <<>>)
    IN  IF Len(result) > 0 /\ result[Len(result)].role = "user"
        THEN SubSeq(result, 1, Len(result) - 1)
        ELSE result

\* faulty variant: the last turn is popped whatever its role
sanitizeHistoryPopAny(raw, maxTurns) ==
    LET trimmed == slice(raw, -maxTurns)
        result == Collapse(trimmed, SkipLeading(trimmed, 0), <<>>)
    IN  IF Len(result) > 0 THEN SubSeq(result, 1, Len(result) - 1) ELSE result

\* faulty variant: the trailing user turn is not popped
sanitizeHistoryNoPop(raw, maxTurns) ==
    LET trimmed == slice(raw, -maxTurns)
    IN  Collapse(trimmed, SkipLeading(trimmed, 0), <<>>)

sanitizeHistory(raw, maxTurns) ==
    LET trimmed == slice(raw, -maxTurns)
        start == SkipLeading(trimmed, 0)
        result == Collapse(trimmed, start, <<>>)
    IN  IF Len(result) > 0 /\ result[Len(result)].role = "user"
        THEN SubSeq(result, 1, Len(result) - 1)
        ELSE result

(***************************************************************************)
(* Capability maps and fixed texts.                                        *)
(***************************************************************************)
\* CAPABILITY_MAP's own properties (the menu tokens)
CAPABILITY_MAP ==
    (<<"1">> :> "medication") @@ (<<"2">> :> "seizure") @@ (<<"3">> :> "mental") @@
    (<<"4">> :> "risk") @@ (<<"5">> :> "schedule") @@ (<<"6">> :> "caregiver") @@
    (<<"7">> :> "refill") @@ (<<"8">> :> "sideeffect") @@ (<<"9">> :> "language")

\* CAPABILITY_MAP is an object literal: the properties it inherits from
\* Object.prototype, each holding a function or an object
ObjectPrototype ==
    (<<"c","o","n","s","t","r","u","c","t","o","r">> :> "Object.prototype.constructor") @@
    (<<"t","o","S","t","r","i","n","g">> :> "Object.prototype.toString") @@
    (<<"v","a","l","u","e","O","f">> :> "Object.prototype.valueOf")

\* the property read CAPABILITY_MAP[key]
CapabilityLookup(key) ==
    IF key \in DOMAIN CAPABILITY_MAP THEN CAPABILITY_MAP[key]
    ELSE IF key \in DOMAIN ObjectPrototype THEN ObjectPrototype[key]
    ELSE Undefined

CapIds == {CAPABILITY_MAP[k] : k \in DOMAIN CAPABILITY_MAP}

CAPABILITIES ==
    [c \in CapIds |->
        CASE c = "medication" -> <<"medication reminders and adherence tracking">>
          [] c = "seizure"    -> <<"seizure tracking and emergency escalation">>
          [] c = "mental"     -> <<"mental health screening embedded in casual conversation">>
          [] c = "risk"       -> <<"personalized seizure risk forecasting">>
          [] c = "schedule"   -> <<"scheduling a provider call and generating a visit summary">>
          [] c = "caregiver"  -> <<"caregiver coordination with patient-controlled privacy">>
          [] c = "refill"     -> <<"medication refill reminders">>
          [] c = "sideeffect" -> <<"side effect monitoring">>
          [] c = "language"   -> <<"multilingual adaptability">>]

INSIGHTS ==
    [c \in CapIds |->
        CASE c = "medication" -> <<"This data trail is what prevents patients from being misclassified as drug-resistant epilepsy.">>
          [] c = "seizure"    -> <<"Longitudinal seizure data between visits is something a 15-minute appointment can never capture.">>
          [] c = "mental"     -> <<"30-40% of epilepsy patients have undiagnosed depression predicting non-adherence.">>
          [] c = "risk"       -> <<"This shifts epilepsy care from reactive to preventive.">>
          [] c = "schedule"   -> <<"The visit summary means the appointment is actually productive instead of starting from scratch.">>
          [] c = "caregiver"  -> <<"In communities where epilepsy carries stigma, patient-controlled privacy is a requirement.">>
          [] c = "refill"     -> <<"Running out of AEDs is one of the most preventable causes of breakthrough seizures.">>
          [] c = "sideeffect" -> <<"Patients who feel bad from medication stop taking it without telling anyone.">>
          [] c = "language"   -> <<"This reaches the 40% of low-income patients every other digital health tool leaves out.">>]

\* `${CAPABILITIES[cap]}` in a template literal: a missing property prints "undefined"
CapabilityText(cap) == IF cap \in DOMAIN CAPABILITIES THEN CAPABILITIES[cap] ELSE <<"undefined">>

\* `${INSIGHTS[cap]}` in a template literal
InsightText(cap) == IF cap \in DOMAIN INSIGHTS THEN INSIGHTS[cap] ELSE <<"undefined">>

MENU == <<"Welcome to the *SimisAI* live demo. [...] Reply with a number to begin. Reply 0 at any time to return here.">>
ResetNotice == <<"Session reset - text anything to start fresh.">>
FreeformNotice == <<"Freeform mode - text anything to begin.">>
ErrorNotice == <<"Something went wrong - text ADMIN RESET to start fresh.">>

\* the second outbound message of a completed demo
InsightMessage(cap) ==
    <<"*Why this matters:* ">> \o InsightText(cap)
        \o <<"\n\nReply 0 to explore another capability or keep chatting.">>

\* messageToSend on kickoff
KickoffMessage(cap) ==
    <<"[SYSTEM KICKOFF] You are starting the ">> \o CapabilityText(cap)
        \o <<" demo. Send your opening message to the patient as Simi.">>

ADMIN_RESET == <<"A","D","M","I","N"," ","R","E","S","E","T">>
ADMIN_FREEFORM == <<"A","D","M","I","N"," ","F","R","E","E","F","O","R","M">>
ADMIN_DEMO == <<"A","D","M","I","N"," ","D","E","M","O">>
ZERO == <<"0">>

\* the completion marker "[DEMO_COMPLETE]"
DEMO_COMPLETE == <<"[","D","E","M","O","_","C","O","M","P","L","E","T","E","]">>

\* the window sizes runCapabilityStep and runFreeform pass to sanitizeHistory
FREEFORM_WINDOW == 30

\* faulty variant: a capability step uses the window of the freeform engine
CapWindowWide == FREEFORM_WINDOW

CAP_WINDOW == 20

(***************************************************************************)
(* runCapabilityStep, after the completion service has answered.           *)
(***************************************************************************)
\* faulty variant: the marker is looked for at the end of the reply only
isDoneSuffixOnly(reply) ==
    /\ Len(reply) >= Len(DEMO_COMPLETE)
    /\ SubSeq(reply, Len(reply) - Len(DEMO_COMPLETE) + 1, Len(reply)) = DEMO_COMPLETE

\* const isDone = reply.includes("[DEMO_COMPLETE]")
isDone(reply) == includes(reply, DEMO_COMPLETE)

\* const cleanReply = reply.replace("[DEMO_COMPLETE]", "").trim()
cleanReply(reply) == trim(replace(reply, DEMO_COMPLETE, <<>>))

\* return { reply: cleanReply, isDone }
StepResult(reply) == [reply |-> cleanReply(reply), isDone |-> isDone(reply)]

(***************************************************************************)
(* Inputs of the model.                                                    *)
(***************************************************************************)
Phones == {"+1A", "+1B"}
\* the senders of the messages of the default specification
Senders == {"+1A"}

\* bodies of inbound messages (req.body.Body); NoBody is a request without one
NoBody == [has |-> FALSE, text |-> <<>>]
Body(t) == [has |-> TRUE, text |-> t]
Bodies ==
    { Body(<<" ","a","d","m","i","n"," ","R","e","s","e","t"," ">>),
      Body(<<"A","D","M","I","N"," ","R","E","S","E","T","!">>),
      Body(<<"a","d","m","i","n"," ","f","r","e","e","f","o","r","m">>),
      Body(ADMIN_DEMO),
      Body(<<"0">>),
      Body(<<"1">>),
      Body(<<" ","2","\n">>),
      Body(<<"c","o","n","s","t","r","u","c","t","o","r">>) }

\* what the completion service may answer
Replies ==
    { <<"Got it.">>,
      <<"Great job!", " ">> \o DEMO_COMPLETE }

\* and what it may answer besides: the empty string, the marker twice
ServiceReplies ==
    Replies \cup { <<>>, DEMO_COMPLETE \o <<" ", "All done.", " ">> \o DEMO_COMPLETE }

(***************************************************************************)
(* Session store.  H is the heap: [sessions, objs, arrs].                  *)
(***************************************************************************)
Heap == [sessions |-> sessions, objs |-> objs, arrs |-> arrs]

\* faulty variant: a session is created with isNew false
SetFreshSeen(H, phone, mode) ==
    [sessions |-> [H.sessions EXCEPT ![phone] = Len(H.objs) + 1],
     objs |-> Append(H.objs, [mode |-> mode, history |-> Len(H.arrs) + 1,
                              isNew |-> FALSE, currentCap |-> Null]),
     arrs |-> Append(H.arrs, <<>>)]

\* sessions.set(phone, { mode, history: [], isNew: true, currentCap: null })
SetFresh(H, phone, mode) ==
    [sessions |-> [H.sessions EXCEPT ![phone] = Len(H.objs) + 1],
     objs |-> Append(H.objs, [mode |-> mode, history |-> Len(H.arrs) + 1,
                              isNew |-> TRUE, currentCap |-> Null]),
     arrs |-> Append(H.arrs, <<>>)]

\* faulty variant: a sender without a session is given the session of another
getSessionShared(H, phone) ==
    IF H.sessions[phone] # 0 THEN H
    ELSE IF \E ph \in Phones : H.sessions[ph] # 0
         THEN [H EXCEPT !.sessions[phone] =
                   H.sessions[CHOOSE ph \in Phones : H.sessions[ph] # 0]]
         ELSE SetFresh(H, phone, "demo")

\* faulty variant: a session is created at every call, the Map is not consulted
getSessionAlways(H, phone) == SetFresh(H, phone, "demo")

getSession(H, phone) ==
    IF H.sessions[phone] = 0 THEN SetFresh(H, phone, "demo") ELSE H

\* faulty variant: the new session takes over the capability of the old one
resetSessionKeepCap(H, phone, mode) ==
    LET H1 == SetFresh(H, phone, mode)
    IN  IF H.sessions[phone] = 0 THEN H1
        ELSE [H1 EXCEPT !.objs[H1.sessions[phone]].currentCap
                            = H.objs[H.sessions[phone]].currentCap]

\* faulty variant: reset keeps the old session object and only sets its mode
resetSessionKeep(H, phone, mode) ==
    [H EXCEPT !.objs[H.sessions[phone]].mode = mode]

resetSession(H, phone, mode) == SetFresh(H, phone, mode)

\* faulty variant: the history is not cleared
NewHistoryKeep(H, sid) == H

\* session.history = []
NewHistory(H, sid) ==
    [H EXCEPT !.objs[sid].history = Len(H.arrs) + 1, !.arrs = Append(H.arrs, <<>>)]

\* faulty variant: the array keeps its last two turns only
PushBounded(H, aid, turn) ==
    [H EXCEPT !.arrs[aid] = IF Len(@) >= 2 THEN <<@[Len(@)], turn>> ELSE Append(@, turn)]

\* faulty variant: the turn is put at the front of the array
PushFront(H, aid, turn) == [H EXCEPT !.arrs[aid] = <<turn>> \o @]

\* history.push(turn) on the array aid
Push(H, aid, turn) == [H EXCEPT !.arrs[aid] = Append(@, turn)]

(***************************************************************************)
(* handleMessage: the order of the branches.                               *)
(***************************************************************************)
\* const msg = body?.trim() ?? ""  (the route has trimmed the body already)
MsgOf(body) == IF body.has THEN trim(trim(body.text)) ELSE <<>>

\* faulty variant: a command is recognized anywhere in the message
IsCommandSubstring(msg, command) == includes(toUpperCase(msg), command)

\* cmd === "ADMIN ..." with cmd = msg.toUpperCase()
IsCommand(msg, command) == toUpperCase(msg) = command

\* faulty variant: the branch order of the earlier handler, selection before continuation
RouteSelectFirst(session, msg) ==
    IF IsCommand(msg, ADMIN_RESET) THEN "reset"
    ELSE IF IsCommand(msg, ADMIN_FREEFORM) THEN "toFreeform"
    ELSE IF IsCommand(msg, ADMIN_DEMO) THEN "toDemo"
    ELSE IF session.mode = "freeform" THEN "freeform"
    ELSE IF session.isNew THEN "firstContact"
    ELSE IF msg = ZERO THEN "menuReturn"
    ELSE IF Truthy(CapabilityLookup(msg)) THEN "capSelect"
    ELSE IF Truthy(session.currentCap) THEN "capStep"
    ELSE "fallback"

\* faulty variant: the capability in progress is tested before the menu return
RouteCapFirst(session, msg) ==
    IF IsCommand(msg, ADMIN_RESET) THEN "reset"
    ELSE IF IsCommand(msg, ADMIN_FREEFORM) THEN "toFreeform"
    ELSE IF IsCommand(msg, ADMIN_DEMO) THEN "toDemo"
    ELSE IF session.mode = "freeform" THEN "freeform"
    ELSE IF session.isNew THEN "firstContact"
    ELSE IF Truthy(session.currentCap) THEN "capStep"
    ELSE IF msg = ZERO THEN "menuReturn"
    ELSE IF Truthy(CapabilityLookup(msg)) THEN "capSelect"
    ELSE "fallback"

\* faulty variant: first contact is tested before the mode
RouteNewFirst(session, msg) ==
    IF IsCommand(msg, ADMIN_RESET) THEN "reset"
    ELSE IF IsCommand(msg, ADMIN_FREEFORM) THEN "toFreeform"
    ELSE IF IsCommand(msg, ADMIN_DEMO) THEN "toDemo"
    ELSE IF session.isNew THEN "firstContact"
    ELSE IF session.mode = "freeform" THEN "freeform"
    ELSE IF msg = ZERO THEN "menuReturn"
    ELSE IF Truthy(session.currentCap) THEN "capStep"
    ELSE IF Truthy(CapabilityLookup(msg)) THEN "capSelect"
    ELSE "fallback"

\* faulty variant: the menu return is tested before first contact
RouteZeroFirst(session, msg) ==
    IF IsCommand(msg, ADMIN_RESET) THEN "reset"
    ELSE IF IsCommand(msg, ADMIN_FREEFORM) THEN "toFreeform"
    ELSE IF IsCommand(msg, ADMIN_DEMO) THEN "toDemo"
    ELSE IF session.mode = "freeform" THEN "freeform"
    ELSE IF msg = ZERO THEN "menuReturn"
    ELSE IF session.isNew THEN "firstContact"
    ELSE IF Truthy(session.currentCap) THEN "capStep"
    ELSE IF Truthy(CapabilityLookup(msg)) THEN "capSelect"
    ELSE "fallback"

\* the branch handleMessage takes for msg, given the session getSession returned
Route(session, msg) ==
    IF IsCommand(msg, ADMIN_RESET) THEN "reset"
    ELSE IF IsCommand(msg, ADMIN_FREEFORM) THEN "toFreeform"
    ELSE IF IsCommand(msg, ADMIN_DEMO) THEN "toDemo"
    ELSE IF session.mode = "freeform" THEN "freeform"
    ELSE IF session.isNew THEN "firstContact"
    ELSE IF msg = ZERO THEN "menuReturn"
    ELSE IF Truthy(session.currentCap) THEN "capStep"
    ELSE IF Truthy(CapabilityLookup(msg)) THEN "capSelect"
    ELSE "fallback"

(***************************************************************************)
(* The engines, up to their await of the completion service.               *)
(***************************************************************************)
CAP_SYSTEM(cap) ==
    <<"You are Simi [...] running a focused demo of one specific capability: ">>
        \o CapabilityText(cap) \o <<". [...] ending your message with the exact string: ">>
        \o DEMO_COMPLETE
FREEFORM_SYSTEM == <<"You are Simi [...] operating in full production mode. [...]">>

\* one call of the completion service: startChat({history, systemInstruction}) then sendMessage(input)
Call(system, history, input) == [system |-> system, history |-> history, input |-> input]

\* faulty variant: the prior turns are cut out of the history (splice) instead of
\* copied (slice)
CapStepStartSplice(H, sid, userMsg, isKickoff) ==
    LET currentCap == H.objs[sid].currentCap
        history == H.objs[sid].history
        messageToSend == IF isKickoff THEN KickoffMessage(currentCap) ELSE userMsg
        H1 == Push(H, history, Turn("user", messageToSend))
        pastHistory == sanitizeHistory(sliceButLast(H1.arrs[history]), CAP_WINDOW)
    IN  [H |-> [H1 EXCEPT !.arrs[history] = <<Turn("user", messageToSend)>>],
         hist |-> history, cap |-> currentCap,
         call |-> Call(CAP_SYSTEM(currentCap), pastHistory, messageToSend)]

\* runCapabilityStep(session, userMsg, isKickoff) from its first line to chat.sendMessage
CapStepStart(H, sid, userMsg, isKickoff) ==
    LET currentCap == H.objs[sid].currentCap
        history == H.objs[sid].history
        messageToSend == IF isKickoff THEN KickoffMessage(currentCap) ELSE userMsg
        H1 == Push(H, history, Turn("user", messageToSend))
        pastHistory == sanitizeHistory(sliceButLast(H1.arrs[history]), CAP_WINDOW)
    IN  [H |-> H1, hist |-> history, cap |-> currentCap,
         call |-> Call(CAP_SYSTEM(currentCap), pastHistory, messageToSend)]

\* faulty variant: "0" takes a freeform session back to demo mode
FreeformStartLeave(H, sid, userMsg) ==
    LET history == H.objs[sid].history
        H0 == IF userMsg = ZERO THEN [H EXCEPT !.objs[sid].mode = "demo"] ELSE H
        H1 == Push(H0, history, Turn("user", userMsg))
        pastHistory == sanitizeHistory(sliceButLast(H1.arrs[history]), FREEFORM_WINDOW)
    IN  [H |-> H1, hist |-> history, cap |-> Null,
         call |-> Call(FREEFORM_SYSTEM, pastHistory, userMsg)]

\* runFreeform(session, userMsg) from its first line to chat.sendMessage
FreeformStart(H, sid, userMsg) ==
    LET history == H.objs[sid].history
        H1 == Push(H, history, Turn("user", userMsg))
        pastHistory == sanitizeHistory(sliceButLast(H1.arrs[history]), FREEFORM_WINDOW)
    IN  [H |-> H1, hist |-> history, cap |-> Null,
         call |-> Call(FREEFORM_SYSTEM, pastHistory, userMsg)]

(***************************************************************************)
(* One invocation of handleMessage.  pc is the await it is suspended at:   *)
(*   chat         chat.sendMessage of an engine                            *)
(*   sendConfirm  the confirmation of ADMIN RESET (the menu follows)       *)
(*   sendReply    the reply of a capability step (the insight may follow)  *)
(*   sendInsight  the insight message (currentCap = null follows)          *)
(*   sendLast     a send followed by return                                *)
(*   sendError    the error notice of the catch block                      *)
(* call holds the request pending at the completion service, ncalls counts *)
(* the requests the invocation has made, answered and reply record the     *)
(* answer it got, sends lists the texts of the outbound sends it has       *)
(* issued, threw says that its catch block was entered, and overlap        *)
(* says that another message of the same sender was in flight at some time *)
(* during the invocation.  sess and hist are the locals `session` and      *)
(* `history` (0 once out of scope), cap is the currentCap that             *)
(* runCapabilityStep read, capId the local of the selection branch.        *)
(***************************************************************************)
Idle ==
    [pc |-> "idle", from |-> "", route |-> "", sess |-> 0, hist |-> 0,
     cap |-> Null, capId |-> Undefined, call |-> <<>>, ncalls |-> 0,
     answered |-> FALSE, reply |-> <<>>, isDone |-> FALSE, sends |-> <<>>,
     threw |-> FALSE, overlap |-> FALSE]

\* the invocations in flight
Procs == DOMAIN procs

\* handleMessage(from, body) from its first line to its first await
Begin(H0, from, msg) ==
    LET H == getSession(H0, from)
        sid == H.sessions[from]
        session == H.objs[sid]
        route == Route(session, msg)
        pr == [Idle EXCEPT !.from = from, !.route = route, !.sess = sid]
    IN  CASE route = "reset" ->
               [H |-> resetSession(H, from, "demo"),
                proc |-> [pr EXCEPT !.pc = "sendConfirm", !.sends = <<ResetNotice>>]]
          [] route = "toFreeform" ->
               [H |-> resetSession(H, from, "freeform"),
                proc |-> [pr EXCEPT !.pc = "sendLast", !.sends = <<FreeformNotice>>]]
          [] route = "toDemo" ->
               [H |-> resetSession(H, from, "demo"),
                proc |-> [pr EXCEPT !.pc = "sendLast", !.sends = <<MENU>>]]
          [] route = "freeform" ->
               LET e == FreeformStart(H, sid, msg)
               IN  [H |-> e.H,
                    proc |-> [pr EXCEPT !.pc = "chat", !.hist = e.hist, !.call = <<e.call>>,
                                        !.ncalls = 1]]
          [] route = "firstContact" ->
               [H |-> [H EXCEPT !.objs[sid].isNew = FALSE],
                proc |-> [pr EXCEPT !.pc = "sendLast", !.sends = <<MENU>>]]
          [] route = "menuReturn" ->
               [H |-> NewHistory([H EXCEPT !.objs[sid].currentCap = Null], sid),
                proc |-> [pr EXCEPT !.pc = "sendLast", !.sends = <<MENU>>]]
          [] route = "capStep" ->
               LET e == CapStepStart(H, sid, msg, FALSE)
               IN  [H |-> e.H,
                    proc |-> [pr EXCEPT !.pc = "chat", !.hist = e.hist, !.cap = e.cap,
                                        !.call = <<e.call>>, !.ncalls = 1]]
          [] route = "capSelect" ->
               LET capId == CapabilityLookup(msg)
                   e == CapStepStart(NewHistory([H EXCEPT !.objs[sid].currentCap = capId], sid),
                                     sid, Null, TRUE)
               IN  [H |-> e.H,
                    proc |-> [pr EXCEPT !.pc = "chat", !.hist = e.hist, !.cap = e.cap,
                                        !.capId = capId, !.call = <<e.call>>,
                                        !.ncalls = 1]]
          [] OTHER ->
               [H |-> H, proc |-> [pr EXCEPT !.pc = "sendLast", !.sends = <<MENU>>]]

\* the next state: the heap H and the invocations ps
Step(H, ps) ==
    /\ sessions' = H.sessions
    /\ objs' = H.objs
    /\ arrs' = H.arrs
    /\ procs' = ps

\* handleMessage, or the catch block, returns: the invocation p is over
Return(ps, p) == SubSeq(ps, 1, p - 1) \o SubSeq(ps, p + 1, Len(ps))

\* the catch block of the route: one attempt to send the error notice
Catch(pr) ==
    [pr EXCEPT !.pc = "sendError", !.call = <<>>, !.hist = 0, !.threw = TRUE,
               !.sends = Append(@, ErrorNotice)]

(***************************************************************************)
(* Actions.                                                                *)
(***************************************************************************)
\* POST /sms with a From: the setImmediate callback runs handleMessage to its first await
Sms(from, body) ==
    /\ nmsgs < MaxMsgs
    /\ nmsgs' = nmsgs + 1
    /\ Len(procs) < MaxInFlight
    /\ LET busy == {q \in Procs : procs[q].from = from}
           b == Begin(Heap, from, MsgOf(body))
       IN  Step(b.H, Append([q \in Procs |->
                                    IF q \in busy THEN [procs[q] EXCEPT !.overlap = TRUE]
                                    ELSE procs[q]],
                               [b.proc EXCEPT !.overlap = (busy # {})]))
    /\ UNCHANGED <<fnIn, fnOut, fnDone, redis, reqs>>

\* faulty variant: an empty answer is asked for again, once
ChatReturnRetryEmpty(p, reply) ==
    /\ p \in Procs
    /\ procs[p].pc = "chat"
    /\ LET pr == procs[p]
           H == Push(Heap, pr.hist, Turn("model", reply))
       IN  IF reply = <<>> /\ pr.ncalls < 2
           THEN Step(Heap, [procs EXCEPT ![p] = [pr EXCEPT !.ncalls = @ + 1]])
           ELSE Step(H, [procs EXCEPT ![p] =
                 IF pr.route = "freeform"
                 THEN [pr EXCEPT !.pc = "sendLast", !.call = <<>>, !.hist = 0,
                                 !.answered = TRUE, !.reply = reply,
                                 !.sends = Append(@, reply)]
                 ELSE LET r == StepResult(reply)
                      IN  [pr EXCEPT !.pc = "sendReply", !.call = <<>>, !.hist = 0,
                                     !.answered = TRUE, !.reply = reply,
                                     !.isDone = r.isDone,
                                     !.sends = Append(@, r.reply)]])
    /\ UNCHANGED <<nmsgs, fnIn, fnOut, fnDone, redis, reqs>>

\* faulty variant: the model turn is put right after the user turn it answers
ChatReturnInPlace(p, reply) ==
    /\ p \in Procs
    /\ procs[p].pc = "chat"
    /\ LET pr == procs[p]
           h == arrs[pr.hist]
           at == {i \in DOMAIN h : h[i] = Turn("user", pr.call[1].input)}
           i == IF at = {} THEN Len(h) ELSE CHOOSE j \in at : \A k \in at : j <= k
           H == [Heap EXCEPT !.arrs[pr.hist] =
                     SubSeq(h, 1, i) \o <<Turn("model", reply)>> \o SubSeq(h, i + 1, Len(h))]
       IN  Step(H, [procs EXCEPT ![p] =
                 IF pr.route = "freeform"
                 THEN [pr EXCEPT !.pc = "sendLast", !.call = <<>>, !.hist = 0,
                                 !.answered = TRUE, !.reply = reply,
                                 !.sends = Append(@, reply)]
                 ELSE LET r == StepResult(reply)
                      IN  [pr EXCEPT !.pc = "sendReply", !.call = <<>>, !.hist = 0,
                                     !.answered = TRUE, !.reply = reply,
                                     !.isDone = r.isDone,
                                     !.sends = Append(@, r.reply)]])
    /\ UNCHANGED <<nmsgs, fnIn, fnOut, fnDone, redis, reqs>>

\* faulty variant: the model turn is pushed on session.history as it is after the
\* await, not on the array the engine took at its first line
ChatReturnRereads(p, reply) ==
    /\ p \in Procs
    /\ procs[p].pc = "chat"
    /\ LET pr == procs[p]
           H == Push(Heap, objs[pr.sess].history, Turn("model", reply))
       IN  Step(H, [procs EXCEPT ![p] =
                 IF pr.route = "freeform"
                 THEN [pr EXCEPT !.pc = "sendLast", !.call = <<>>, !.hist = 0,
                                 !.answered = TRUE, !.reply = reply,
                                 !.sends = Append(@, reply)]
                 ELSE LET r == StepResult(reply)
                      IN  [pr EXCEPT !.pc = "sendReply", !.call = <<>>, !.hist = 0,
                                     !.answered = TRUE, !.reply = reply,
                                     !.isDone = r.isDone,
                                     !.sends = Append(@, r.reply)]])
    /\ UNCHANGED <<nmsgs, fnIn, fnOut, fnDone, redis, reqs>>

\* chat.sendMessage resolves with reply: the engine pushes the model turn and returns,
\* and handleMessage issues the send of the reply
ChatReturn(p, reply) ==
    /\ p \in Procs
    /\ procs[p].pc = "chat"
    /\ LET pr == procs[p]
           H == Push(Heap, pr.hist, Turn("model", reply))
       IN  Step(H, [procs EXCEPT ![p] =
                 IF pr.route = "freeform"
                 THEN [pr EXCEPT !.pc = "sendLast", !.call = <<>>, !.hist = 0,
                                 !.answered = TRUE, !.reply = reply,
                                 !.sends = Append(@, reply)]
                 ELSE LET r == StepResult(reply)
                      IN  [pr EXCEPT !.pc = "sendReply", !.call = <<>>, !.hist = 0,
                                     !.answered = TRUE, !.reply = reply,
                                     !.isDone = r.isDone,
                                     !.sends = Append(@, r.reply)]])
    /\ UNCHANGED <<nmsgs, fnIn, fnOut, fnDone, redis, reqs>>

\* faulty variant: the engine appends an empty model turn for the failed call
ChatFailAppend(p) ==
    /\ p \in Procs
    /\ procs[p].pc = "chat"
    /\ Step(Push(Heap, procs[p].hist, Turn("model", <<>>)), [procs EXCEPT ![p] = Catch(@)])
    /\ UNCHANGED <<nmsgs, fnIn, fnOut, fnDone, redis, reqs>>

\* faulty variant: the rejection is swallowed, the handler ends without the notice
ChatFailDrop(p) ==
    /\ p \in Procs
    /\ procs[p].pc = "chat"
    /\ Step(Heap, Return(procs, p))
    /\ UNCHANGED <<nmsgs, fnIn, fnOut, fnDone, redis, reqs>>

\* chat.sendMessage rejects: the exception reaches the catch block of the route
ChatFail(p) ==
    /\ p \in Procs
    /\ procs[p].pc = "chat"
    /\ Step(Heap, [procs EXCEPT ![p] = Catch(@)])
    /\ UNCHANGED <<nmsgs, fnIn, fnOut, fnDone, redis, reqs>>

\* the awaited send resolves: handleMessage runs to its next await or returns
SendOk(p) ==
    /\ p \in Procs
    /\ procs[p].pc \in {"sendConfirm", "sendReply", "sendInsight", "sendLast", "sendError"}
    /\ LET pr == procs[p]
       IN  CASE pr.pc = "sendConfirm" ->
                  /\ procs' = [procs EXCEPT ![p] = [pr EXCEPT !.pc = "sendLast",
                                                              !.sends = Append(@, MENU)]]
                  /\ UNCHANGED <<sessions, objs, arrs>>
             [] pr.pc = "sendReply" /\ pr.isDone ->
                  LET cap == IF pr.route = "capSelect" THEN pr.capId
                             ELSE objs[pr.sess].currentCap
                  IN  /\ procs' = [procs EXCEPT ![p] =
                                      [pr EXCEPT !.pc = "sendInsight",
                                                 !.sends = Append(@, InsightMessage(cap))]]
                      /\ UNCHANGED <<sessions, objs, arrs>>
             [] pr.pc = "sendInsight" ->
                  Step([Heap EXCEPT !.objs[pr.sess].currentCap = Null],
                       Return(procs, p))
             [] OTHER ->
                  Step(Heap, Return(procs, p))
    /\ UNCHANGED <<nmsgs, fnIn, fnOut, fnDone, redis, reqs>>

\* faulty variant: a failed send of a reply takes the exchange out of the history
SendFailRollback(p) ==
    /\ p \in Procs
    /\ procs[p].pc \in {"sendConfirm", "sendReply", "sendInsight", "sendLast", "sendError"}
    /\ LET pr == procs[p]
           history == objs[pr.sess].history
           H == IF pr.answered /\ ~pr.threw /\ Len(arrs[history]) >= 2
                THEN [Heap EXCEPT !.arrs[history] = SubSeq(@, 1, Len(@) - 2)]
                ELSE Heap
       IN  Step(H, IF pr.pc = "sendError" THEN Return(procs, p)
                   ELSE [procs EXCEPT ![p] = Catch(@)])
    /\ UNCHANGED <<nmsgs, fnIn, fnOut, fnDone, redis, reqs>>

\* faulty variant: the send of the error notice is not guarded, its failure is
\* caught again
SendFailAgain(p) ==
    /\ p \in Procs
    /\ procs[p].pc \in {"sendConfirm", "sendReply", "sendInsight", "sendLast", "sendError"}
    /\ Step(Heap, [procs EXCEPT ![p] = Catch(@)])
    /\ UNCHANGED <<nmsgs, fnIn, fnOut, fnDone, redis, reqs>>

\* faulty variant: when the send of the welcome menu fails, isNew is set again
SendFailRestore(p) ==
    /\ p \in Procs
    /\ procs[p].pc \in {"sendConfirm", "sendReply", "sendInsight", "sendLast", "sendError"}
    /\ Step(IF procs[p].route = "firstContact"
            THEN [Heap EXCEPT !.objs[procs[p].sess].isNew = TRUE] ELSE Heap,
            IF procs[p].pc = "sendError" THEN Return(procs, p)
            ELSE [procs EXCEPT ![p] = Catch(@)])
    /\ UNCHANGED <<nmsgs, fnIn, fnOut, fnDone, redis, reqs>>

\* the awaited send rejects: the catch block sends the error notice; a failure of that
\* send is swallowed by the inner try
SendFail(p) ==
    /\ p \in Procs
    /\ procs[p].pc \in {"sendConfirm", "sendReply", "sendInsight", "sendLast", "sendError"}
    /\ Step(Heap, IF procs[p].pc = "sendError" THEN Return(procs, p)
                   ELSE [procs EXCEPT ![p] = Catch(@)])
    /\ UNCHANGED <<nmsgs, fnIn, fnOut, fnDone, redis, reqs>>

\* the module is loaded: `sessions` is an empty Map and no request has arrived
Init ==
    /\ sessions = [ph \in Phones |-> 0]
    /\ objs = <<>>
    /\ arrs = <<>>
    /\ procs = <<>>
    /\ nmsgs = 0
    /\ fnIn = <<>>
    /\ fnOut = <<>>
    /\ fnDone = FALSE
    /\ redis = <<>>
    /\ reqs = <<>>

Next ==
    \/ \E from \in Senders, body \in Bodies : Sms(from, body)
    \/ \E p \in Procs, reply \in Replies : ChatReturn(p, reply)
    \/ \E p \in Procs : ChatFail(p)
    \/ \E p \in Procs : SendOk(p)
    \/ \E p \in Procs : SendFail(p)

Spec == Init /\ [][Next]_vars

\* the same program with a completion service that also gives the unusual answers
NextService ==
    \/ \E from \in Senders, body \in Bodies : Sms(from, body)
    \/ \E p \in Procs, reply \in ServiceReplies : ChatReturn(p, reply)
    \/ \E p \in Procs : ChatFail(p)
    \/ \E p \in Procs : SendOk(p)
    \/ \E p \in Procs : SendFail(p)

SpecService == Init /\ [][NextService]_vars

\* the same program with a completion service that answers with the empty string
\* or with a text that ends with the marker
EmptyOrDone == { <<>>, <<"Great job!", " ">> \o DEMO_COMPLETE }

NextEmptyOrDone ==
    \/ \E from \in Senders, body \in Bodies : Sms(from, body)
    \/ \E p \in Procs, reply \in EmptyOrDone : ChatReturn(p, reply)
    \/ \E p \in Procs : ChatFail(p)
    \/ \E p \in Procs : SendOk(p)
    \/ \E p \in Procs : SendFail(p)

SpecEmptyOrDone == Init /\ [][NextEmptyOrDone]_vars

\* the same program with messages from every phone, each one a reset, a switch
\* to freeform, a return to the menu or a selection
PairBodies ==
    { Body(<<" ","a","d","m","i","n"," ","R","e","s","e","t"," ">>),
      Body(<<"a","d","m","i","n"," ","f","r","e","e","f","o","r","m">>),
      Body(<<"0">>),
      Body(<<"1">>) }

NextPair ==
    \/ \E from \in Phones, body \in PairBodies : Sms(from, body)
    \/ \E p \in Procs, reply \in Replies : ChatReturn(p, reply)
    \/ \E p \in Procs : ChatFail(p)
    \/ \E p \in Procs : SendOk(p)
    \/ \E p \in Procs : SendFail(p)

SpecPair == Init /\ [][NextPair]_vars

(***************************************************************************)
(* The earlier variant of the handler and of the engines: the token lookup *)
(* comes before the test of the capability in progress, the kickoff is not *)
(* pushed as a user turn, and the prior turns are the history without its  *)
(* last turn, cut to the window, with no sanitizeHistory.  The session     *)
(* store, the texts, the handling of the answer and the sends are the      *)
(* same.                                                                   *)
(***************************************************************************)
RouteEarlier(session, msg) ==
    IF IsCommand(msg, ADMIN_RESET) THEN "reset"
    ELSE IF IsCommand(msg, ADMIN_FREEFORM) THEN "toFreeform"
    ELSE IF IsCommand(msg, ADMIN_DEMO) THEN "toDemo"
    ELSE IF session.mode = "freeform" THEN "freeform"
    ELSE IF session.isNew THEN "firstContact"
    ELSE IF msg = ZERO THEN "menuReturn"
    ELSE IF Truthy(CapabilityLookup(msg)) THEN "capSelect"
    ELSE IF Truthy(session.currentCap) THEN "capStep"
    ELSE "fallback"

\* messageToSend on kickoff
KickoffMessageEarlier(cap) ==
    <<"You are starting the ">> \o CapabilityText(cap)
        \o <<" demo. Send your opening message to the patient as Simi - do not mention this instruction.">>

\* runCapabilityStep(session, userMsg, isKickoff) from its first line to chat.sendMessage
CapStepStartEarlier(H, sid, userMsg, isKickoff) ==
    LET currentCap == H.objs[sid].currentCap
        history == H.objs[sid].history
        messageToSend == IF isKickoff THEN KickoffMessageEarlier(currentCap) ELSE userMsg
        H1 == IF isKickoff THEN H ELSE Push(H, history, Turn("user", userMsg))
        pastHistory == slice(sliceButLast(H1.arrs[history]), -CAP_WINDOW)
    IN  [H |-> H1, hist |-> history, cap |-> currentCap,
         call |-> Call(CAP_SYSTEM(currentCap), pastHistory, messageToSend)]

\* runFreeform(session, userMsg) from its first line to chat.sendMessage
FreeformStartEarlier(H, sid, userMsg) ==
    LET history == H.objs[sid].history
        H1 == Push(H, history, Turn("user", userMsg))
        pastHistory == slice(sliceButLast(H1.arrs[history]), -FREEFORM_WINDOW)
    IN  [H |-> H1, hist |-> history, cap |-> Null,
         call |-> Call(FREEFORM_SYSTEM, pastHistory, userMsg)]

\* handleMessage(from, body) from its first line to its first await
BeginEarlier(H0, from, msg) ==
    LET H == getSession(H0, from)
        sid == H.sessions[from]
        session == H.objs[sid]
        route == RouteEarlier(session, msg)
        pr == [Idle EXCEPT !.from = from, !.route = route, !.sess = sid]
    IN  CASE route = "reset" ->
               [H |-> resetSession(H, from, "demo"),
                proc |-> [pr EXCEPT !.pc = "sendConfirm", !.sends = <<ResetNotice>>]]
          [] route = "toFreeform" ->
               [H |-> resetSession(H, from, "freeform"),
                proc |-> [pr EXCEPT !.pc = "sendLast", !.sends = <<FreeformNotice>>]]
          [] route = "toDemo" ->
               [H |-> resetSession(H, from, "demo"),
                proc |-> [pr EXCEPT !.pc = "sendLast", !.sends = <<MENU>>]]
          [] route = "freeform" ->
               LET e == FreeformStartEarlier(H, sid, msg)
               IN  [H |-> e.H,
                    proc |-> [pr EXCEPT !.pc = "chat", !.hist = e.hist, !.call = <<e.call>>,
                                        !.ncalls = 1]]
          [] route = "firstContact" ->
               [H |-> [H EXCEPT !.objs[sid].isNew = FALSE],
                proc |-> [pr EXCEPT !.pc = "sendLast", !.sends = <<MENU>>]]
          [] route = "menuReturn" ->
               [H |-> NewHistory([H EXCEPT !.objs[sid].currentCap = Null], sid),
                proc |-> [pr EXCEPT !.pc = "sendLast", !.sends = <<MENU>>]]
          [] route = "capSelect" ->
               LET capId == CapabilityLookup(msg)
                   e == CapStepStartEarlier(
                            NewHistory([H EXCEPT !.objs[sid].currentCap = capId], sid),
                            sid, Null, TRUE)
               IN  [H |-> e.H,
                    proc |-> [pr EXCEPT !.pc = "chat", !.hist = e.hist, !.cap = e.cap,
                                        !.capId = capId, !.call = <<e.call>>,
                                        !.ncalls = 1]]
          [] route = "capStep" ->
               LET e == CapStepStartEarlier(H, sid, msg, FALSE)
               IN  [H |-> e.H,
                    proc |-> [pr EXCEPT !.pc = "chat", !.hist = e.hist, !.cap = e.cap,
                                        !.call = <<e.call>>, !.ncalls = 1]]
          [] OTHER ->
               [H |-> H, proc |-> [pr EXCEPT !.pc = "sendLast", !.sends = <<MENU>>]]

\* POST /sms: the route handler runs handleMessage to its first await
SmsEarlier(from, body) ==
    /\ nmsgs < MaxMsgs
    /\ nmsgs' = nmsgs + 1
    /\ Len(procs) < MaxInFlight
    /\ LET busy == {q \in Procs : procs[q].from = from}
           b == BeginEarlier(Heap, from, MsgOf(body))
       IN  Step(b.H, Append([q \in Procs |->
                                    IF q \in busy THEN [procs[q] EXCEPT !.overlap = TRUE]
                                    ELSE procs[q]],
                               [b.proc EXCEPT !.overlap = (busy # {})]))
    /\ UNCHANGED <<fnIn, fnOut, fnDone, redis, reqs>>

NextEarlier ==
    \/ \E from \in Senders, body \in Bodies : SmsEarlier(from, body)
    \/ \E p \in Procs, reply \in Replies : ChatReturn(p, reply)
    \/ \E p \in Procs : ChatFail(p)
    \/ \E p \in Procs : SendOk(p)
    \/ \E p \in Procs : SendFail(p)

SpecEarlier == Init /\ [][NextEarlier]_vars

(***************************************************************************)
(* The same program taken up when one sender has a long conversation       *)
(* behind it: n exchanges handled one after the other, of which exchange   *)
(* `failed` (0: none) got no answer and so left its user turn alone.  One  *)
(* more message arrives.                                                   *)
(***************************************************************************)
MaxExchanges == 17   \* exchanges of the conversation so far

\* the history after exchanges i..n; `first` is the text of the first user turn
RECURSIVE PastHistory(_, _, _, _)
PastHistory(i, n, failed, first) ==
    IF i > n THEN <<>>
    ELSE <<Turn("user", IF i = 1 THEN first ELSE <<"h","i">>)>>
            \o (IF i = failed THEN <<>> ELSE <<Turn("model", <<"Got it.">>)>>)
            \o PastHistory(i + 1, n, failed, first)

InitWindow ==
    /\ \E n \in 0..MaxExchanges, failed \in 0..MaxExchanges, freeform \in BOOLEAN :
          /\ failed <= n
          /\ ~freeform => n >= 1
          /\ objs = << [mode |-> IF freeform THEN "freeform" ELSE "demo",
                        history |-> 1,
                        isNew |-> freeform,
                        currentCap |-> IF freeform THEN Null ELSE "medication"] >>
          /\ arrs = << PastHistory(1, n, failed,
                                   IF freeform THEN <<"h","i">>
                                   ELSE KickoffMessage("medication")) >>
    /\ sessions = [ph \in Phones |-> IF ph \in Senders THEN 1 ELSE 0]
    /\ procs = <<>>
    /\ nmsgs = MaxMsgs - 1
    /\ fnIn = <<>>
    /\ fnOut = <<>>
    /\ fnDone = FALSE
    /\ redis = <<>>
    /\ reqs = <<>>

SpecWindow == InitWindow /\ [][Next]_vars

(***************************************************************************)
(* The same program when the messages of the sender are processed one at a *)
(* time and the completion service always answers: a request arrives when  *)
(* no handler is in flight.  The conversation starts at the first message  *)
(* or is taken up after exchanges that were all answered.                  *)
(***************************************************************************)
SmsInTurn(from, body) == procs = <<>> /\ Sms(from, body)

InitInTurn ==
    \/ Init
    \/ InitWindow /\ Len(arrs[1]) % 2 = 0

NextInTurn ==
    \/ \E from \in Senders, body \in Bodies : SmsInTurn(from, body)
    \/ \E p \in Procs, reply \in Replies : ChatReturn(p, reply)
    \/ \E p \in Procs : SendOk(p)
    \/ \E p \in Procs : SendFail(p)

SpecInTurn == InitInTurn /\ [][NextInTurn]_vars

(***************************************************************************)
(* Function specifications: a pure function applied to bounded inputs.     *)
(***************************************************************************)
InitProgram ==
    /\ sessions = [ph \in Phones |-> 0]
    /\ objs = <<>>
    /\ arrs = <<>>
    /\ procs = <<>>
    /\ nmsgs = 0
    /\ redis = <<>>
    /\ reqs = <<>>

Program == <<sessions, objs, arrs, procs, nmsgs>>

RECURSIVE SeqsUpTo(_, _)
SeqsUpTo(S, n) ==
    IF n = 0 THEN {<<>>}
    ELSE LET shorter == SeqsUpTo(S, n - 1)
         IN  shorter \cup {Append(q, x) : q \in shorter, x \in S}

\* the turns of the sequences given to sanitizeHistory
TestTurns == {Turn(r, t) : r \in Roles, t \in {<<"a">>, <<"b">>}}

InitSanitize ==
    /\ InitProgram
    /\ fnIn \in [raw : SeqsUpTo(TestTurns, MaxLen), maxTurns : 0..MaxWin]
    /\ fnOut = <<>>
    /\ fnDone = FALSE

ApplySanitize ==
    /\ ~fnDone
    /\ fnOut' = sanitizeHistory(fnIn.raw, fnIn.maxTurns)
    /\ fnDone' = TRUE
    /\ UNCHANGED <<Program, fnIn, redis, reqs>>

SpecSanitize == InitSanitize /\ [][ApplySanitize]_vars

\* the pieces the replies given to runCapabilityStep are assembled from
Pieces ==
    { <<"Great job!">>, <<" ">>, DEMO_COMPLETE,
      <<"[","D","E","M","O","_">>, <<"C","O","M","P","L","E","T","E","]">> }

RECURSIVE Concat(_)
Concat(ss) == IF ss = <<>> THEN <<>> ELSE Head(ss) \o Concat(Tail(ss))

InitMarker ==
    /\ InitProgram
    /\ fnIn \in {Concat(ss) : ss \in SeqsUpTo(Pieces, MaxPieces)}
    /\ fnOut = <<>>
    /\ fnDone = FALSE

ApplyStepResult ==
    /\ ~fnDone
    /\ fnOut' = StepResult(fnIn)
    /\ fnDone' = TRUE
    /\ UNCHANGED <<Program, fnIn, redis, reqs>>

SpecMarker == InitMarker /\ [][ApplyStepResult]_vars

(***************************************************************************)
(* Properties.                                                             *)
(***************************************************************************)
\* the session the Map holds for a sender, and its history
Registered(ph) == sessions[ph] # 0
Session(ph) == objs[sessions[ph]]
History(ph) == arrs[Session(ph).history]

\* the text s without the white space at its two ends, stated without trim
IsTrimOf(t, s) ==
    \E i \in 1..(Len(s) + 1), j \in 0..Len(s) :
        /\ t = SubSeq(s, i, j)
        /\ \A k \in 1..(i - 1) : s[k] \in WhiteSpace
        /\ \A k \in (j + 1)..Len(s) : s[k] \in WhiteSpace
        /\ t # <<>> => t[1] \notin WhiteSpace /\ t[Len(t)] \notin WhiteSpace

\* the marker occurs in s at index i
MarkerAt(s, i) ==
    /\ i + Len(DEMO_COMPLETE) - 1 <= Len(s)
    /\ \A k \in 1..Len(DEMO_COMPLETE) : s[i + k - 1] = DEMO_COMPLETE[k]
HasMarker(s) == \E i \in 1..Len(s) : MarkerAt(s, i)

\* a body that is the command once the white space around it is removed, letter
\* case aside; stated character by character
Matches(body, command) ==
    /\ body.has
    /\ \E i \in 1..(Len(body.text) + 1) :
          /\ i + Len(command) - 1 <= Len(body.text)
          /\ \A k \in 1..(i - 1) : body.text[k] \in WhiteSpace
          /\ \A k \in (i + Len(command))..Len(body.text) : body.text[k] \in WhiteSpace
          /\ \A k \in 1..Len(command) : UpperChar(body.text[i + k - 1]) = command[k]

AdminBody(body) ==
    Matches(body, ADMIN_RESET) \/ Matches(body, ADMIN_FREEFORM) \/ Matches(body, ADMIN_DEMO)

\* the inbound bodies that are administrative commands, and those that are ADMIN RESET
AdminBodies == {body \in Bodies : AdminBody(body)}
ResetBodies == {body \in Bodies : Matches(body, ADMIN_RESET)}
FreeformBodies == {body \in Bodies : Matches(body, ADMIN_FREEFORM)}

\* the sender's registered session is the one resetSession creates in demo mode
Fresh(ph) ==
    /\ Registered(ph)
    /\ Session(ph).mode = "demo"
    /\ Session(ph).isNew
    /\ Session(ph).currentCap = Null
    /\ History(ph) = <<>>

\* the next non-administrative message of the sender is due the welcome menu
FirstContactDue(ph) ==
    ~Registered(ph) \/ (Session(ph).mode = "demo" /\ Session(ph).isNew)

\* the step is the arrival of an administrative command of the sender
AdminArrives(ph) == \E body \in AdminBodies : Sms(ph, body)

\* the routes of the administrative commands
AdminRoutes == {"reset", "toFreeform", "toDemo"}

\* C1: for every turn sequence and every window size, the result of
\* sanitizeHistory has no two adjacent turns with the same role and, if it is
\* not empty, starts with a user turn and does not end with a user turn.
C1_Alternation ==
    fnDone =>
        /\ \A i \in 1..(Len(fnOut) - 1) : fnOut[i].role # fnOut[i + 1].role
        /\ fnOut # <<>> =>
              /\ fnOut[1].role = "user"
              /\ fnOut[Len(fnOut)].role # "user"

\* C1 witness: an input that starts with a model turn, repeats a role, ends with a
\* user turn and is longer than the window, with a non-empty result
C1_Witness ==
    /\ fnDone
    /\ fnOut # <<>>
    /\ Len(fnIn.raw) > fnIn.maxTurns
    /\ fnIn.maxTurns > 0
    /\ LET trimmed == SubSeq(fnIn.raw, Len(fnIn.raw) - fnIn.maxTurns + 1, Len(fnIn.raw))
       IN  /\ trimmed[1].role = "model"
           /\ trimmed[Len(trimmed)].role = "user"
           /\ \E i \in 1..(Len(trimmed) - 1) : trimmed[i].role = trimmed[i + 1].role

\* C2: when a message that is the menu token of another capability arrives for
\* a session in demo mode, past first contact, with a capability active, the
\* handler delegates it to runCapabilityStep as content: the registered session
\* object and its currentCap are unchanged, the history array is the same array
\* with the literal message appended as a user turn, and the request to the
\* completion service carries the prompt of the active capability and the
\* literal message as its input.
C2_TokenIsContent ==
    [][\A from \in Senders, body \in Bodies :
          (/\ Registered(from)
           /\ Session(from).mode = "demo"
           /\ ~Session(from).isNew
           /\ Truthy(Session(from).currentCap)
           /\ MsgOf(body) \in DOMAIN CAPABILITY_MAP
           /\ CAPABILITY_MAP[MsgOf(body)] # Session(from).currentCap
           /\ Sms(from, body))
          => /\ sessions'[from] = sessions[from]
             /\ objs'[sessions[from]] = objs[sessions[from]]
             /\ arrs'[Session(from).history]
                    = Append(History(from), Turn("user", MsgOf(body)))
             /\ procs'[Len(procs')].route = "capStep"
             /\ procs'[Len(procs')].pc = "chat"
             /\ Len(procs'[Len(procs')].call) = 1
             /\ procs'[Len(procs')].call[1].system = CAP_SYSTEM(Session(from).currentCap)
             /\ procs'[Len(procs')].call[1].input = MsgOf(body)
      ]_vars

\* C2 witness: the medication demo is active and the message " 2\n" is waiting
\* for the completion service as a step of that demo
C2_Witness ==
    \E p \in Procs :
        /\ procs[p].route = "capStep"
        /\ procs[p].pc = "chat"
        /\ procs[p].cap = "medication"
        /\ procs[p].call[1].input = <<"2">>
        /\ Session(procs[p].from).currentCap = "medication"
        /\ History(procs[p].from)[Len(History(procs[p].from))] = Turn("user", <<"2">>)
        /\ Len(History(procs[p].from)) > 1

\* C3: when a message that is no administrative command, not "0" and none of
\* the tokens "1".."9" arrives for a session in demo mode, past first contact,
\* with no capability active, the handler sends the menu, makes no request to
\* the completion service and changes nothing in the session store.
C3_FailsClosed ==
    [][\A from \in Senders, body \in Bodies :
          (/\ Registered(from)
           /\ Session(from).mode = "demo"
           /\ ~Session(from).isNew
           /\ ~Truthy(Session(from).currentCap)
           /\ body \notin AdminBodies
           /\ MsgOf(body) # ZERO
           /\ MsgOf(body) \notin DOMAIN CAPABILITY_MAP
           /\ Sms(from, body))
          => /\ procs'[Len(procs')].sends = <<MENU>>
             /\ procs'[Len(procs')].ncalls = 0
             /\ procs'[Len(procs')].pc # "chat"
             /\ UNCHANGED <<sessions, objs, arrs>>
      ]_vars

\* C4: a message that is no administrative command and arrives when the sender
\* has no session, or a demo session whose isNew is still set, is answered with
\* the welcome menu whatever its content: no request to the completion service,
\* no turn appended, isNew cleared.  Such a message arriving at any other time
\* is not handled as first contact, and once first contact is consumed it stays
\* consumed through every step that is not an administrative command of the
\* sender.  (An administrative command is never first contact: C4_AsStated.)
C4_FirstContactOnce ==
    [][\A from \in Senders :
          /\ \A body \in Bodies :
                (body \notin AdminBodies /\ Sms(from, body)) =>
                    IF FirstContactDue(from)
                    THEN /\ procs'[Len(procs')].route = "firstContact"
                         /\ procs'[Len(procs')].sends = <<MENU>>
                         /\ procs'[Len(procs')].ncalls = 0
                         /\ procs'[Len(procs')].pc # "chat"
                         /\ Registered(from)'
                         /\ ~Session(from)'.isNew
                         /\ History(from)' = <<>>
                         /\ \A a \in DOMAIN arrs : arrs'[a] = arrs[a]
                    ELSE /\ procs'[Len(procs')].route # "firstContact"
                         /\ sessions'[from] = sessions[from]
          /\ (~FirstContactDue(from) /\ ~AdminArrives(from)) => ~FirstContactDue(from)'
      ]_vars

\* C4 witness: the second message is on the selection route of "1" while the
\* handler of the first message, answered with the menu, has not returned yet
C4_Witness ==
    /\ nmsgs = 2
    /\ Len(procs) = 2
    /\ procs[1].route = "firstContact"
    /\ procs[1].sends = <<MENU>>
    /\ procs[2].route = "capSelect"
    /\ procs[2].capId = "medication"

\* C4 as stated: the first message of a new identity makes no request and
\* appends nothing whatever its content, and the second message of that
\* identity is not handled as first contact.
C4_AsStated ==
    [][\A from \in Senders, body \in Bodies :
          Sms(from, body) =>
              /\ nmsgs = 0 => /\ procs'[Len(procs')].ncalls = 0
                              /\ History(from)' = <<>>
              /\ nmsgs = 1 => procs'[Len(procs')].route # "firstContact"
      ]_vars

\* C5: the arrival of ADMIN RESET leaves the sender registered with a session in
\* demo mode with an empty history, no capability and isNew set, and makes no
\* request; that session stays so through every step that is not a message of
\* the sender, whatever earlier handlers of the sender do when they resume; and
\* the next message of the sender that is no administrative command is answered
\* with the menu as first contact, without a request.
C5_ResetClears ==
    [][\A from \in Senders :
          /\ \A body \in Bodies :
                (body \in ResetBodies /\ Sms(from, body)) =>
                    /\ Fresh(from)'
                    /\ procs'[Len(procs')].ncalls = 0
          /\ \A body \in Bodies :
                (Fresh(from) /\ body \notin AdminBodies /\ Sms(from, body)) =>
                    /\ procs'[Len(procs')].route = "firstContact"
                    /\ procs'[Len(procs')].sends = <<MENU>>
                    /\ procs'[Len(procs')].ncalls = 0
                    /\ procs'[Len(procs')].pc # "chat"
          /\ (Fresh(from) /\ ~(\E body \in Bodies : Sms(from, body))) => Fresh(from)'
      ]_vars

\* C5 witness: ADMIN RESET has been handled while a capability step of the same
\* sender is still waiting for the completion service: the registered session
\* is fresh and the step still holds the old session with its turns
C5_Witness ==
    \E p, q \in Procs :
        /\ p < q
        /\ procs[p].pc = "chat"
        /\ procs[p].from = procs[q].from
        /\ procs[q].route = "reset"
        /\ Fresh(procs[q].from)
        /\ procs[p].sess # sessions[procs[p].from]
        /\ arrs[procs[p].hist] # <<>>

\* C6: a message is handled as an administrative command exactly when its
\* trimmed text is, letter case aside, ADMIN RESET, ADMIN FREEFORM or ADMIN DEMO.
\* When it is, in whatever state the session is, the sender is registered with
\* a session object that did not exist before, with an empty history array of
\* its own, isNew set, no capability, in freeform mode for ADMIN FREEFORM and in
\* demo mode otherwise; every older object and array is left as it was; the
\* handler issues the send of its reply and makes no request, then or later.
\* When it is not, the registered session object is not replaced.
C6_AdminFirst ==
    [][/\ \A from \in Senders, body \in Bodies :
             Sms(from, body) =>
                IF body \in AdminBodies
                THEN /\ procs'[Len(procs')].route
                            = (IF body \in ResetBodies THEN "reset"
                               ELSE IF body \in FreeformBodies THEN "toFreeform"
                               ELSE "toDemo")
                     /\ procs'[Len(procs')].sends
                            = (IF body \in ResetBodies THEN <<ResetNotice>>
                               ELSE IF body \in FreeformBodies THEN <<FreeformNotice>>
                               ELSE <<MENU>>)
                     /\ procs'[Len(procs')].ncalls = 0
                     /\ sessions'[from] \notin DOMAIN objs
                     /\ Session(from)'.history \notin DOMAIN arrs
                     /\ Session(from)'.mode
                            = (IF body \in FreeformBodies THEN "freeform" ELSE "demo")
                     /\ Session(from)'.isNew
                     /\ Session(from)'.currentCap = Null
                     /\ History(from)' = <<>>
                     /\ \A o \in DOMAIN objs : o # sessions[from] => objs'[o] = objs[o]
                     /\ \A a \in DOMAIN arrs : arrs'[a] = arrs[a]
                ELSE /\ procs'[Len(procs')].route \notin AdminRoutes
                     /\ Registered(from) => sessions'[from] = sessions[from]
       /\ \A p \in DOMAIN procs' :
             procs'[p].route \in AdminRoutes =>
                /\ procs'[p].ncalls = 0
                /\ procs'[p].pc # "chat"
                /\ ~procs'[p].answered
      ]_vars

\* C6 witness: ADMIN FREEFORM has been handled while the kickoff of a capability
\* of the same sender is waiting for the completion service
C6_Witness ==
    \E p, q \in Procs :
        /\ p < q
        /\ procs[p].route = "capSelect"
        /\ procs[p].pc = "chat"
        /\ procs[q].route = "toFreeform"
        /\ procs[q].from = procs[p].from
        /\ Session(procs[q].from).mode = "freeform"
        /\ Session(procs[q].from).isNew
        /\ procs[q].sends = <<FreeformNotice>>

\* the sends of a handler other than the error notice of the catch block
RECURSIVE EngineSends(_)
EngineSends(sends) ==
    IF sends = <<>> THEN <<>>
    ELSE IF Head(sends) = ErrorNotice THEN EngineSends(Tail(sends))
    ELSE <<Head(sends)>> \o EngineSends(Tail(sends))

\* C7: when a handler that ran a capability step, alone among the messages of
\* its sender, returns: if the reply held the marker, its sends (the error
\* notice aside) are the cleaned reply and then the insight message of the
\* capability the step ran for, and currentCap of the sender's session is null;
\* if the reply held no marker, it made one send and currentCap is still the
\* capability of the step.
C7_CompletionSends ==
    [][\A p \in DOMAIN procs, from \in Senders :
          (/\ procs' = Return(procs, p)
           /\ procs[p].from = from
           /\ procs[p].route \in {"capStep", "capSelect"}
           /\ procs[p].answered
           /\ ~procs[p].overlap)
          => IF HasMarker(procs[p].reply)
             THEN /\ Len(EngineSends(procs[p].sends)) = 2
                  /\ ~HasMarker(EngineSends(procs[p].sends)[1])
                  /\ EngineSends(procs[p].sends)[2] = InsightMessage(procs[p].cap)
                  /\ Session(from)'.currentCap = Null
             ELSE /\ Len(EngineSends(procs[p].sends)) = 1
                  /\ Session(from)'.currentCap = procs[p].cap
      ]_vars

\* C8: runCapabilityStep reports isDone exactly when the raw reply contains the
\* marker anywhere in it, and the reply it returns is the raw reply with one
\* occurrence of the marker taken out and the white space at both ends trimmed,
\* everything else kept (the raw reply trimmed when it holds no marker).
C8_MarkerStripped ==
    fnDone =>
        /\ fnOut.isDone <=> HasMarker(fnIn)
        /\ IF HasMarker(fnIn)
           THEN \E i \in 1..Len(fnIn) :
                   /\ MarkerAt(fnIn, i)
                   /\ IsTrimOf(fnOut.reply,
                               SubSeq(fnIn, 1, i - 1)
                                   \o SubSeq(fnIn, i + Len(DEMO_COMPLETE), Len(fnIn)))
           ELSE IsTrimOf(fnOut.reply, fnIn)

\* C8 witness: "Great job! [DEMO_COMPLETE]" gives isDone and "Great job!"
C8_Witness ==
    /\ fnDone
    /\ fnIn = <<"Great job!", " ">> \o DEMO_COMPLETE
    /\ fnOut = [reply |-> <<"Great job!">>, isDone |-> TRUE]

\* C9: the text a capability step sends as its reply holds no completion
\* marker, whatever the completion service answered.
C9_NoMarkerSent ==
    \A p \in Procs :
        (procs[p].route \in {"capStep", "capSelect"} /\ procs[p].answered)
        => ~HasMarker(procs[p].sends[1])

\* C10: when a token "1".."9" arrives for a session in demo mode, past first
\* contact, with no capability active, currentCap becomes the capability of the
\* token, the history becomes a new array holding one user turn, the kickoff
\* instruction, and the request carries the prompt of that capability, no prior
\* turns and the kickoff instruction, which is not the message, as its input.
\* When the completion service then answers without the marker and no other
\* message of the sender was in flight in the meantime, currentCap is still that
\* capability and the history is the kickoff turn followed by one model turn
\* holding the reply, from the answer until the handler returns.
C10_Kickoff ==
    /\ [][\A from \in Senders, body \in Bodies :
             (/\ Registered(from)
              /\ Session(from).mode = "demo"
              /\ ~Session(from).isNew
              /\ ~Truthy(Session(from).currentCap)
              /\ MsgOf(body) \in DOMAIN CAPABILITY_MAP
              /\ Sms(from, body))
             => /\ procs'[Len(procs')].route = "capSelect"
                /\ procs'[Len(procs')].pc = "chat"
                /\ Session(from)'.currentCap = CAPABILITY_MAP[MsgOf(body)]
                /\ Session(from)'.history \notin DOMAIN arrs
                /\ History(from)'
                      = <<Turn("user", KickoffMessage(CAPABILITY_MAP[MsgOf(body)]))>>
                /\ procs'[Len(procs')].call
                      = <<[system |-> CAP_SYSTEM(CAPABILITY_MAP[MsgOf(body)]),
                           history |-> <<>>,
                           input |-> KickoffMessage(CAPABILITY_MAP[MsgOf(body)])]>>
                /\ KickoffMessage(CAPABILITY_MAP[MsgOf(body)]) # MsgOf(body)
         ]_vars
    /\ [](\A p \in Procs :
             (/\ procs[p].route = "capSelect"
              /\ procs[p].capId \in CapIds
              /\ procs[p].answered
              /\ ~HasMarker(procs[p].reply)
              /\ ~procs[p].overlap)
             => /\ Session(procs[p].from).currentCap = procs[p].capId
                /\ History(procs[p].from)
                      = <<Turn("user", KickoffMessage(procs[p].capId)),
                          Turn("model", procs[p].reply)>>)
    /\ [][\A p \in DOMAIN procs, from \in Senders :
             (/\ procs[p].from = from
              /\ procs[p].route = "capSelect"
              /\ procs[p].capId \in CapIds
              /\ procs[p].answered
              /\ ~HasMarker(procs[p].reply)
              /\ ~procs[p].overlap
              /\ procs' = Return(procs, p))
             => /\ Session(from)'.currentCap = procs[p].capId
                /\ History(from)'
                      = <<Turn("user", KickoffMessage(procs[p].capId)),
                          Turn("model", procs[p].reply)>>
         ]_vars

\* C10 witness: "1" was answered with "Got it." with no other message in flight,
\* and its handler is sending the reply
C10_Witness ==
    \E p \in Procs :
        /\ procs[p].route = "capSelect"
        /\ procs[p].capId = "medication"
        /\ procs[p].reply = <<"Got it.">>
        /\ procs[p].pc = "sendReply"
        /\ ~procs[p].overlap
        /\ Session(procs[p].from).currentCap = "medication"
        /\ Len(History(procs[p].from)) = 2

\* C10 as stated: after a selection whose completion call succeeded without the
\* marker, currentCap is that capability and the history is exactly the kickoff
\* turn and the reply turn.
C10_AsStated ==
    \A p \in Procs :
        (/\ procs[p].route = "capSelect"
         /\ procs[p].capId \in CapIds
         /\ procs[p].answered
         /\ ~HasMarker(procs[p].reply))
        => /\ Session(procs[p].from).currentCap = procs[p].capId
           /\ History(procs[p].from)
                 = <<Turn("user", KickoffMessage(procs[p].capId)),
                     Turn("model", procs[p].reply)>>

\* a is b with some of its elements left out
RECURSIVE IsSubseq(_, _)
IsSubseq(a, b) ==
    IF a = <<>> THEN TRUE
    ELSE IF b = <<>> THEN FALSE
    ELSE IF Head(a) = Head(b) THEN IsSubseq(Tail(a), Tail(b))
    ELSE IsSubseq(a, Tail(b))

\* the last n elements of a, stated without slice
LastN(a, n) == SubSeq(a, (IF Len(a) > n THEN Len(a) - n + 1 ELSE 1), Len(a))

\* C11: every request pending at the completion service carries prior turns that
\* alternate, start with a user turn and end with a model turn when there are
\* any, and number at most 20 for a capability step and 30 for a freeform step;
\* and when a message starts a request, its prior turns are taken, in order,
\* from the last 20 (30) turns the history held before the message was
\* appended (none at all after a selection, which clears the history), and the
\* message itself travels as the new input.
C11_SanitizedCalls ==
    /\ [](\A p \in Procs :
             procs[p].pc = "chat" =>
                /\ Len(procs[p].call) = 1
                /\ procs[p].route \in {"freeform", "capStep", "capSelect"}
                /\ \A i \in 1..(Len(procs[p].call[1].history) - 1) :
                      procs[p].call[1].history[i].role
                          # procs[p].call[1].history[i + 1].role
                /\ procs[p].call[1].history # <<>> =>
                      /\ procs[p].call[1].history[1].role = "user"
                      /\ procs[p].call[1].history[Len(procs[p].call[1].history)].role
                             = "model"
                /\ Len(procs[p].call[1].history)
                      <= (IF procs[p].route = "freeform" THEN 30 ELSE 20))
    /\ [][\A from \in Senders :
             (/\ nmsgs' = nmsgs + 1
              /\ procs'[Len(procs')].from = from
              /\ procs'[Len(procs')].pc = "chat")
             => /\ Registered(from)
                /\ IsSubseq(procs'[Len(procs')].call[1].history,
                            IF procs'[Len(procs')].route = "capSelect" THEN <<>>
                            ELSE LastN(History(from),
                                       IF procs'[Len(procs')].route = "freeform"
                                       THEN 30 ELSE 20))
                /\ History(from)'[Len(History(from)')]
                      = Turn("user", procs'[Len(procs')].call[1].input)
                /\ procs'[Len(procs')].route # "capSelect" =>
                      /\ Session(from)'.history = Session(from).history
                      /\ History(from)' = Append(History(from),
                              Turn("user", procs'[Len(procs')].call[1].input))
                      /\ \E body \in Bodies :
                            procs'[Len(procs')].call[1].input = MsgOf(body)
         ]_vars

\* C11 witness: a capability step whose prior turns fill the window: 20 turns
\* of a history that held 32 before the message
C11_Witness ==
    \E p \in Procs :
        /\ procs[p].pc = "chat"
        /\ procs[p].route = "capStep"
        /\ Len(arrs[procs[p].hist]) = 33
        /\ Len(procs[p].call[1].history) = 20

\* the handler's request to the completion service has failed
CallFailed(pr) == pr.ncalls = 1 /\ ~pr.answered /\ pr.threw

\* C12: a message that goes to an engine with an active conversation (freeform
\* step, capability step) leaves every session object as it was and appends one
\* user turn to the history, every earlier turn kept; the step at which the
\* request fails changes no session object and no history, and neither does
\* anything the handler does afterwards.  So, with no other message of the
\* sender in flight, after the failure the history ends with the user turn of
\* the failed exchange, the mode is the one the engine ran in and currentCap is
\* the capability the step ran for.  For a selection that is the capability
\* just selected, on a history holding the kickoff turn alone: the selection
\* itself is not undone (C12_AsStated).
C12_FailureKeepsState ==
    /\ [][/\ \A from \in Senders :
                (/\ nmsgs' = nmsgs + 1
                 /\ procs'[Len(procs')].from = from
                 /\ procs'[Len(procs')].route \in {"freeform", "capStep"})
                => /\ sessions' = sessions
                   /\ objs' = objs
                   /\ Len(arrs') = Len(arrs)
                   /\ \A a \in DOMAIN arrs :
                         IF a = Session(from).history
                         THEN /\ Len(arrs'[a]) = Len(arrs[a]) + 1
                              /\ SubSeq(arrs'[a], 1, Len(arrs[a])) = arrs[a]
                              /\ arrs'[a][Len(arrs'[a])].role = "user"
                         ELSE arrs'[a] = arrs[a]
          /\ \A p \in DOMAIN procs :
                (/\ nmsgs' = nmsgs
                 /\ \/ /\ procs[p].pc = "chat"
                       /\ Len(procs') = Len(procs)
                       /\ procs'[p].threw
                    \/ /\ CallFailed(procs[p])
                       /\ procs' = Return(procs, p))
                => UNCHANGED <<sessions, objs, arrs>>
         ]_vars
    /\ [](\A p \in Procs :
             (CallFailed(procs[p]) /\ ~procs[p].overlap) =>
                /\ procs[p].pc = "sendError"
                /\ History(procs[p].from) # <<>>
                /\ History(procs[p].from)[Len(History(procs[p].from))].role = "user"
                /\ Session(procs[p].from).mode
                      = (IF procs[p].route = "freeform" THEN "freeform" ELSE "demo")
                /\ Session(procs[p].from).currentCap
                      = (IF procs[p].route = "freeform" THEN Null ELSE procs[p].cap)
                /\ procs[p].route = "capSelect" =>
                      /\ procs[p].cap = procs[p].capId
                      /\ History(procs[p].from)
                            = <<Turn("user", KickoffMessage(procs[p].capId))>>)

\* C12 witness: the request of a capability step made after an answered
\* kickoff has failed, with no other message in flight
C12_Witness ==
    \E p \in Procs :
        /\ CallFailed(procs[p])
        /\ ~procs[p].overlap
        /\ procs[p].route = "capStep"
        /\ Len(History(procs[p].from)) = 3
        /\ History(procs[p].from)[2].role = "model"
        /\ Session(procs[p].from).currentCap = "medication"

\* C12 as stated: after a failed request, with no other message of the sender in
\* flight, currentCap has the value it had before the message: the capability of
\* the step for a capability step, and null for a freeform step and for a
\* selection (a selection is made only when no capability is active).
C12_AsStated ==
    \A p \in Procs :
        (CallFailed(procs[p]) /\ ~procs[p].overlap) =>
            Session(procs[p].from).currentCap
                = (IF procs[p].route = "capStep" THEN procs[p].cap ELSE Null)

\* the step is one of handler p: it moves on or returns
OwnStep(p) ==
    /\ nmsgs' = nmsgs
    /\ \/ procs' = Return(procs, p)
       \/ Len(procs') = Len(procs) /\ procs'[p] # procs[p]

\* how many of the sends are the error notice
RECURSIVE ErrorNotices(_)
ErrorNotices(sends) ==
    IF sends = <<>> THEN 0
    ELSE (IF Head(sends) = ErrorNotice THEN 1 ELSE 0) + ErrorNotices(Tail(sends))

\* C13: a handler is in its catch block exactly when it is waiting for the send
\* of the error notice, and it has issued that send once if it is there and
\* never otherwise.  A step of a handler that enters the catch block (a failed
\* request or a failed send, on any route) comes from outside it and issues the
\* send of the error notice as the next send; the step that follows, whether
\* that send succeeds or fails, ends the callback with nothing further sent.
C13_CaughtOnce ==
    /\ [](\A p \in Procs :
             /\ procs[p].threw <=> procs[p].pc = "sendError"
             /\ ErrorNotices(procs[p].sends) = (IF procs[p].threw THEN 1 ELSE 0)
             /\ procs[p].threw => procs[p].sends[Len(procs[p].sends)] = ErrorNotice)
    /\ [][\A p \in DOMAIN procs :
             OwnStep(p) =>
                IF procs[p].pc = "sendError"
                THEN procs' = Return(procs, p)
                ELSE (Len(procs') = Len(procs) /\ procs'[p].threw) =>
                        /\ ~procs[p].threw
                        /\ procs'[p].pc = "sendError"
                        /\ procs'[p].sends = Append(procs[p].sends, ErrorNotice)
         ]_vars

\* C13 witness: the confirmation of ADMIN RESET could not be sent, and the
\* handler is waiting for the send of the error notice
C13_Witness ==
    \E p \in Procs :
        /\ procs[p].route = "reset"
        /\ procs[p].pc = "sendError"
        /\ procs[p].sends = <<ResetNotice, ErrorNotice>>

\* the send of the reply of an engine, or a send after it, has failed
ReplySendFailed(pr) == pr.answered /\ pr.threw

\* C14: the step at which the completion service answers appends the model turn
\* with the answer to the history the user turn was pushed on, right after that
\* user turn when no other message of the sender is in flight; the step at
\* which the send of the reply fails, and the end of the handler after it, change
\* no session and no history.  So after the failure, with no other message of
\* the sender in flight, the history of the sender ends with a user turn and the
\* model turn holding the answer.
C14_NoRollback ==
    /\ [][\A p \in DOMAIN procs :
             /\ (/\ nmsgs' = nmsgs
                 /\ procs[p].pc = "chat"
                 /\ Len(procs') = Len(procs)
                 /\ procs'[p].answered)
                => /\ arrs'[procs[p].hist]
                         = Append(arrs[procs[p].hist], Turn("model", procs'[p].reply))
                   /\ ~procs[p].overlap =>
                         arrs[procs[p].hist][Len(arrs[procs[p].hist])]
                            = Turn("user", procs[p].call[1].input)
             /\ (/\ nmsgs' = nmsgs
                 /\ procs[p].answered
                 /\ \/ /\ ~procs[p].threw
                       /\ Len(procs') = Len(procs)
                       /\ procs'[p].threw
                    \/ /\ procs[p].threw
                       /\ procs' = Return(procs, p))
                => UNCHANGED <<sessions, objs, arrs>>
         ]_vars
    /\ [](\A p \in Procs :
             (ReplySendFailed(procs[p]) /\ ~procs[p].overlap) =>
                LET h == History(procs[p].from)
                IN  /\ Len(h) >= 2
                    /\ h[Len(h) - 1].role = "user"
                    /\ h[Len(h)] = Turn("model", procs[p].reply))

\* C14 witness: the reply of a capability step that followed an answered kickoff
\* could not be sent, with no other message in flight
C14_Witness ==
    \E p \in Procs :
        /\ ReplySendFailed(procs[p])
        /\ ~procs[p].overlap
        /\ procs[p].route = "capStep"
        /\ Len(procs[p].sends) = 2
        /\ Len(History(procs[p].from)) = 4
        /\ History(procs[p].from)[4] = Turn("model", procs[p].reply)

\* the handlers of a sender, in the order of their arrival
IsOf(from, pr) == pr.from = from
ProcsOf(from) == SelectSeq(procs, LAMBDA pr : IsOf(from, pr))

\* the session objects and history arrays a sender can reach: through the Map
\* and through the locals of its handlers
OwnedObjs(from) ==
    ({sessions[from]} \cup {procs[p].sess : p \in {q \in Procs : procs[q].from = from}})
        \ {0}
OwnedArrs(from) ==
    ({objs[s].history : s \in OwnedObjs(from)}
        \cup {procs[p].hist : p \in {q \in Procs : procs[q].from = from}}) \ {0}

\* the step is the arrival of a message of the sender or a step of one of its handlers
StepOf(from) ==
    \/ nmsgs' = nmsgs + 1 /\ procs'[Len(procs')].from = from
    \/ \E p \in DOMAIN procs : procs[p].from = from /\ OwnStep(p)

\* the registered session of a sender by value, and a heap that holds nothing else
ViewIn(H, from) ==
    IF H.sessions[from] = 0 THEN [registered |-> FALSE]
    ELSE [registered |-> TRUE,
          mode |-> H.objs[H.sessions[from]].mode,
          isNew |-> H.objs[H.sessions[from]].isNew,
          currentCap |-> H.objs[H.sessions[from]].currentCap,
          history |-> H.arrs[H.objs[H.sessions[from]].history]]
View(from) == ViewIn(Heap, from)
Alone(from) ==
    IF ~Registered(from)
    THEN [sessions |-> [ph \in Phones |-> 0], objs |-> <<>>, arrs |-> <<>>]
    ELSE [sessions |-> [ph \in Phones |-> IF ph = from THEN 1 ELSE 0],
          objs |-> <<[Session(from) EXCEPT !.history = 1]>>,
          arrs |-> <<History(from)>>]
\* a handler without the addresses of its locals
Local(pr) == [pr EXCEPT !.sess = 0, !.hist = 0, !.overlap = FALSE]

\* C15: no session object and no history array is reachable by two senders.  A
\* step of sender a (an arrival, or a step of one of its handlers) leaves the
\* Map entry of every other sender, every object and array that sender can
\* reach and every handler of that sender as they were.  The arrival of a
\* message of sender b does to the registered session of b, and starts the
\* handler, exactly as it would on a store that holds the session of b alone.
\* So the session of b goes through the states it would go through if only the
\* messages of b were processed.
C15_Isolation ==
    /\ [](\A a, b \in Phones :
             a # b => /\ OwnedObjs(a) \cap OwnedObjs(b) = {}
                      /\ OwnedArrs(a) \cap OwnedArrs(b) = {})
    /\ [][\A b \in Phones :
             /\ \A a \in Phones \ {b} :
                   StepOf(a) =>
                      /\ sessions'[b] = sessions[b]
                      /\ \A s \in OwnedObjs(b) : objs'[s] = objs[s]
                      /\ \A h \in OwnedArrs(b) : arrs'[h] = arrs[h]
                      /\ ProcsOf(b)' = ProcsOf(b)
                      /\ View(b)' = View(b)
             /\ (nmsgs' = nmsgs + 1 /\ procs'[Len(procs')].from = b) =>
                   \E body \in PairBodies :
                      LET al == Begin(Alone(b), b, MsgOf(body))
                      IN  /\ View(b)' = ViewIn(al.H, b)
                          /\ Local(procs'[Len(procs')]) = Local(al.proc)
         ]_vars

\* C15 witness: a message of one sender is waiting for the completion service
\* in a freeform session while the first message of another sender, in a demo
\* session, is waiting for the send of the menu
C15_Witness ==
    \E p, q \in Procs :
        /\ procs[p].from = "+1A" /\ procs[q].from = "+1B"
        /\ procs[p].pc = "chat" /\ procs[q].route = "firstContact"
        /\ Registered("+1A") /\ Registered("+1B")
        /\ Session("+1A").mode = "freeform" /\ Len(History("+1A")) = 1
        /\ Session("+1B").mode = "demo" /\ History("+1B") = <<>>

\* user and model turns in turn, from a user turn to a model turn
InPairs(h) ==
    /\ Len(h) % 2 = 0
    /\ \A i \in DOMAIN h : h[i].role = (IF i % 2 = 1 THEN "user" ELSE "model")

\* C16: with the messages of a sender processed one at a time and every request
\* answered, between two messages the history is a sequence of pairs, a user
\* turn and the model turn that answers it.  A message that goes to an engine
\* appends its user turn at the end of the history (a selection starts the
\* history again with its kickoff turn), and the request made for it carries
\* that turn as input and, as prior turns, the last 20 (30 in freeform mode)
\* turns the history held before, all of earlier messages; the answer to the
\* request is appended as a model turn right after that user turn, and the
\* reply sent is made of that answer.
C16_InOrder ==
    /\ [](procs = <<>> => \A from \in Senders : Registered(from) => InPairs(History(from)))
    /\ [][/\ \A from \in Senders, body \in Bodies :
                (/\ nmsgs' = nmsgs + 1
                 /\ procs'[1].route \in {"freeform", "capStep", "capSelect"}
                 /\ SmsInTurn(from, body))
                => LET new == procs'[1]
                       input == IF new.route = "capSelect"
                                THEN KickoffMessage(CapabilityLookup(MsgOf(body)))
                                ELSE MsgOf(body)
                       before == IF new.route = "capSelect" THEN <<>> ELSE History(from)
                   IN  /\ History(from)' = Append(before, Turn("user", input))
                       /\ new.pc = "chat"
                       /\ new.call[1].input = input
                       /\ new.call[1].history
                             = LastN(before, IF new.route = "freeform" THEN 30 ELSE 20)
          /\ \A p \in DOMAIN procs :
                (procs[p].pc = "chat" /\ nmsgs' = nmsgs)
                => LET h == procs[p].hist
                   IN  /\ arrs[h][Len(arrs[h])] = Turn("user", procs[p].call[1].input)
                       /\ arrs'[h] = Append(arrs[h], Turn("model", procs'[p].reply))
                       /\ History(procs[p].from)' = arrs'[h]
                       /\ procs'[p].sends
                             = <<IF procs[p].route = "freeform" THEN procs'[p].reply
                                 ELSE cleanReply(procs'[p].reply)>>
         ]_vars

\* C16 witness: a capability step that follows at least two answered exchanges
\* has been answered: the history holds the pairs in the order of the messages
C16_Witness ==
    \E p \in Procs :
        /\ procs[p].route = "capStep"
        /\ procs[p].answered
        /\ Len(History(procs[p].from)) >= 6
        /\ InPairs(History(procs[p].from))
        /\ History(procs[p].from)[Len(History(procs[p].from))]
              = Turn("model", procs[p].reply)

\* C17: when a message of a sender arrives while an earlier message of the same
\* sender is waiting for the completion service with its user turn last in the
\* history, the user turn of the new message is appended right after it; and
\* when the earlier request is then answered first, its model turn is appended
\* after the user turn of the later message.  The history then holds the two
\* user turns next to each other and the reply to the first after the second
\* (C17_Witness).
C17_Interleaves ==
    [][/\ \A p \in DOMAIN procs :
             (/\ nmsgs' = nmsgs + 1
              /\ procs[p].pc = "chat"
              /\ procs'[Len(procs')].from = procs[p].from
              /\ procs'[Len(procs')].hist = procs[p].hist
              /\ arrs[procs[p].hist][Len(arrs[procs[p].hist])]
                    = Turn("user", procs[p].call[1].input))
             => /\ procs'[Len(procs')].pc = "chat"
                /\ procs'[p].pc = "chat"
                /\ arrs'[procs[p].hist]
                      = Append(arrs[procs[p].hist],
                               Turn("user", procs'[Len(procs')].call[1].input))
       /\ \A p, q \in DOMAIN procs :
             (/\ p < q
              /\ nmsgs' = nmsgs
              /\ procs[p].pc = "chat" /\ procs[q].pc = "chat"
              /\ procs[p].hist = procs[q].hist
              /\ Len(procs') = Len(procs)
              /\ procs'[p].answered
              /\ Len(arrs[procs[p].hist]) >= 2
              /\ SubSeq(arrs[procs[p].hist], Len(arrs[procs[p].hist]) - 1,
                        Len(arrs[procs[p].hist]))
                    = <<Turn("user", procs[p].call[1].input),
                        Turn("user", procs[q].call[1].input)>>)
             => /\ procs'[q].pc = "chat"
                /\ arrs'[procs[p].hist]
                      = Append(arrs[procs[p].hist], Turn("model", procs'[p].reply))
      ]_vars

\* C17 witness: two messages of the sender are in flight, the first answered and
\* the second waiting; the history ends with the user turn of the first, the
\* user turn of the second and the reply to the first
C17_Witness ==
    \E p, q \in Procs :
        /\ p < q
        /\ procs[p].from = procs[q].from
        /\ procs[p].answered /\ ~procs[p].threw
        /\ procs[q].pc = "chat"
        /\ LET h == arrs[procs[q].hist]
           IN  /\ Len(h) >= 3
               /\ h = History(procs[q].from)
               /\ h[Len(h) - 2].role = "user"
               /\ h[Len(h) - 1] = Turn("user", procs[q].call[1].input)
               /\ h[Len(h)] = Turn("model", procs[p].reply)

\* C18: a message that is no admin command and finds the session of its sender
\* in freeform mode goes to the freeform engine, "0" and the capability tokens
\* included and whatever isNew and currentCap are: its handler makes one request
\* with the freeform instruction and the message as input, and changes nothing
\* of the session but the history.  A handler on that route sends the answer as
\* it is, marker or not, never an insight message, and nothing after it but the
\* error notice when the send fails.
C18_FreeformRoutesAll ==
    /\ [][\A from \in Senders, body \in Bodies \ AdminBodies :
             (/\ nmsgs' = nmsgs + 1
              /\ Registered(from)
              /\ Session(from).mode = "freeform"
              /\ Sms(from, body))
             => /\ procs'[Len(procs')].route = "freeform"
                /\ procs'[Len(procs')].pc = "chat"
                /\ procs'[Len(procs')].call
                      = <<Call(FREEFORM_SYSTEM, procs'[Len(procs')].call[1].history,
                               MsgOf(body))>>
                /\ procs'[Len(procs')].sends = <<>>
                /\ sessions' = sessions
                /\ objs' = objs
                /\ History(from)' = Append(History(from), Turn("user", MsgOf(body)))
         ]_vars
    /\ [](\A p \in Procs :
             procs[p].route = "freeform" =>
                /\ procs[p].pc \in {"chat", "sendLast", "sendError"}
                /\ procs[p].ncalls = 1
                /\ ~procs[p].isDone
                /\ EngineSends(procs[p].sends)
                      = (IF procs[p].answered THEN <<procs[p].reply>> ELSE <<>>)
                /\ procs[p].pc = "sendLast" => procs[p].sends = <<procs[p].reply>>)

\* C18 witness: in freeform mode, with isNew still true, the message "1" has been
\* answered with a text that ends with the marker, and that text is being sent
C18_Witness ==
    \E p \in Procs :
        /\ procs[p].route = "freeform"
        /\ procs[p].pc = "sendLast"
        /\ HasMarker(procs[p].reply)
        /\ procs[p].sends = <<procs[p].reply>>
        /\ ~procs[p].overlap
        /\ Session(procs[p].from).isNew
        /\ History(procs[p].from) = <<Turn("user", <<"1">>), Turn("model", procs[p].reply)>>

\* C19: a step that finds the registered session of a sender in freeform mode
\* leaves the sender with a registered session in freeform mode, unless the step
\* is the arrival of ADMIN RESET or ADMIN DEMO from that sender.  No answer of
\* the completion service, no send and no other message ends the freeform
\* conversation, and a session object in freeform mode never changes mode.
C19_FreeformStays ==
    [][/\ \A from \in Senders :
             (Registered(from) /\ Session(from).mode = "freeform")
             => \/ Registered(from)' /\ Session(from)'.mode = "freeform"
                \/ /\ nmsgs' = nmsgs + 1
                   /\ procs'[Len(procs')].from = from
                   /\ procs'[Len(procs')].route \in {"reset", "toDemo"}
                   /\ \E body \in Bodies :
                         /\ toUpperCase(MsgOf(body)) \in {ADMIN_RESET, ADMIN_DEMO}
                         /\ Sms(from, body)
       /\ \A s \in DOMAIN objs : objs[s].mode = "freeform" => objs'[s].mode = "freeform"
      ]_vars

\* C19 witness: a freeform session after two answered exchanges, nothing in flight
C19_Witness ==
    /\ procs = <<>>
    /\ \E from \in Senders :
          /\ Registered(from)
          /\ Session(from).mode = "freeform"
          /\ Len(History(from)) = 4
          /\ History(from)[4].role = "model"

\* C20: isNew of a session object goes from true to false once, at the arrival
\* of the first message that is no admin command and finds the session in demo
\* mode, which is answered with the menu; it never goes back to true.  After
\* the arrival of any message that is no admin command, isNew of the sender's
\* session is false if the session is in demo mode.  A session in freeform mode
\* keeps isNew true as long as it exists: its messages go to the freeform
\* engine, which does not read or write isNew.
C20_IsNewConsumed ==
    /\ [][/\ \A s \in DOMAIN objs :
                /\ ~objs[s].isNew => ~objs'[s].isNew
                /\ (objs[s].isNew /\ ~objs'[s].isNew)
                      => /\ nmsgs' = nmsgs + 1
                         /\ procs'[Len(procs')].route = "firstContact"
                         /\ procs'[Len(procs')].sess = s
                         /\ procs'[Len(procs')].sends = <<MENU>>
                         /\ objs[s].mode = "demo"
          /\ \A from \in Senders :
                (/\ nmsgs' = nmsgs + 1
                 /\ procs'[Len(procs')].from = from
                 /\ procs'[Len(procs')].route \notin AdminRoutes)
                => /\ Registered(from)'
                   /\ Session(from)'.isNew = (Session(from)'.mode = "freeform")
                   /\ procs'[Len(procs')].route = "firstContact"
                         <=> (~Registered(from) \/ (Session(from).isNew
                                                    /\ Session(from).mode = "demo"))
         ]_vars
    /\ [](\A s \in DOMAIN objs : objs[s].mode = "freeform" => objs[s].isNew)

\* C20 witness: first contact in demo mode was answered with the menu and left
\* isNew false on that session; after ADMIN FREEFORM a message has been
\* processed by the freeform engine and isNew of the freeform session is true
C20_Witness ==
    /\ procs = <<>>
    /\ \E from \in Senders :
          /\ Registered(from)
          /\ Session(from).mode = "freeform"
          /\ Session(from).isNew
          /\ Len(History(from)) = 2
          /\ \E s \in DOMAIN objs : objs[s].mode = "demo" /\ ~objs[s].isNew

\* C20 as stated: when the handler of a message that is no admin command is
\* over, with no other message of the sender in flight meanwhile, isNew of the
\* sender's session is false, in either mode.
C20_AsStated ==
    [][\A p \in DOMAIN procs, from \in Senders :
          (/\ procs[p].from = from
           /\ procs[p].route \notin AdminRoutes
           /\ ~procs[p].overlap
           /\ procs' = Return(procs, p))
          => ~Session(from)'.isNew
      ]_vars

\* the bodies that are "0" once trimmed
ZeroBodies == {body \in Bodies : MsgOf(body) = ZERO}

\* C21: a message "0" that finds the session of its sender in demo mode with
\* isNew false, a capability in progress or not, leaves the session with
\* currentCap null and an empty history, and its handler has made no request to
\* the completion service and is sending the menu; a handler on that route never
\* makes a request and sends nothing but the menu (and the error notice when
\* that send fails).
C21_MenuReturn ==
    /\ [][\A from \in Senders, body \in ZeroBodies :
             (/\ nmsgs' = nmsgs + 1
              /\ Registered(from)
              /\ Session(from).mode = "demo"
              /\ ~Session(from).isNew
              /\ Sms(from, body))
             => /\ procs'[Len(procs')].route = "menuReturn"
                /\ procs'[Len(procs')].pc = "sendLast"
                /\ procs'[Len(procs')].sends = <<MENU>>
                /\ procs'[Len(procs')].ncalls = 0
                /\ procs'[Len(procs')].call = <<>>
                /\ sessions' = sessions
                /\ Session(from)'.currentCap = Null
                /\ Session(from)'.mode = "demo"
                /\ ~Session(from)'.isNew
                /\ History(from)' = <<>>
         ]_vars
    /\ [](\A p \in Procs :
             procs[p].route = "menuReturn" =>
                /\ procs[p].pc \in {"sendLast", "sendError"}
                /\ procs[p].ncalls = 0
                /\ procs[p].call = <<>>
                /\ ~procs[p].answered
                /\ EngineSends(procs[p].sends) = <<MENU>>)

\* C21 witness: "0" arrived during a capability demo whose kickoff had been
\* answered: the menu is being sent, currentCap is null, the history is empty
\* and the two turns of the demo are in the array the session left behind
C21_Witness ==
    \E p \in Procs :
        /\ procs[p].route = "menuReturn"
        /\ procs[p].pc = "sendLast"
        /\ ~procs[p].overlap
        /\ Session(procs[p].from).currentCap = Null
        /\ History(procs[p].from) = <<>>
        /\ \E a \in DOMAIN arrs :
              /\ Len(arrs[a]) = 2
              /\ arrs[a][1] = Turn("user", KickoffMessage("medication"))

\* C22: every session object in freeform mode, registered or replaced, has
\* currentCap null.
C22_FreeformNoCap ==
    \A s \in DOMAIN objs : objs[s].mode = "freeform" => objs[s].currentCap = Null

\* C22 witness: ADMIN FREEFORM arrived during a capability demo: the session it
\* replaced has a capability and the registered freeform session has none
C22_Witness ==
    \E from \in Senders :
        /\ Registered(from)
        /\ Session(from).mode = "freeform"
        /\ Session(from).currentCap = Null
        /\ \E s \in DOMAIN objs : objs[s].mode = "demo" /\ objs[s].currentCap = "medication"

\* a is the beginning of b
IsPrefix(a, b) == Len(a) <= Len(b) /\ SubSeq(b, 1, Len(a)) = a

\* C23: in every step every history array keeps the turns it has, in place and
\* unchanged, and may get more at its end.  A session object keeps its history
\* array, unless the step is the arrival of a selection or of "0" at that
\* session: then its history is a new array, empty for "0" and holding the
\* kickoff turn alone for a selection.  A sender keeps its session object,
\* unless the step is the arrival of an admin command of that sender: then its
\* session is a new object with a new, empty history array.
C23_AppendOnly ==
    [][/\ Len(arrs') >= Len(arrs)
       /\ Len(objs') >= Len(objs)
       /\ \A a \in DOMAIN arrs : IsPrefix(arrs[a], arrs'[a])
       /\ \A s \in DOMAIN objs :
             \/ objs'[s].history = objs[s].history
             \/ /\ nmsgs' = nmsgs + 1
                /\ procs'[Len(procs')].sess = s
                /\ procs'[Len(procs')].route \in {"capSelect", "menuReturn"}
                /\ objs'[s].history \notin DOMAIN arrs
                /\ arrs'[objs'[s].history]
                      = (IF procs'[Len(procs')].route = "menuReturn" THEN <<>>
                         ELSE <<Turn("user", KickoffMessage(procs'[Len(procs')].capId))>>)
       /\ \A from \in Senders :
             Registered(from) =>
                \/ sessions'[from] = sessions[from]
                \/ /\ nmsgs' = nmsgs + 1
                   /\ procs'[Len(procs')].from = from
                   /\ procs'[Len(procs')].route \in AdminRoutes
                   /\ sessions'[from] \notin DOMAIN objs
                   /\ objs'[sessions'[from]].history \notin DOMAIN arrs
                   /\ arrs'[objs'[sessions'[from]].history] = <<>>
      ]_vars

\* C23 witness: a capability step is waiting for its answer on a history of
\* three turns, and the array the selection left behind is still there
C23_Witness ==
    \E p \in Procs :
        /\ procs[p].route = "capStep"
        /\ procs[p].pc = "chat"
        /\ Len(arrs[procs[p].hist]) = 3
        /\ arrs[procs[p].hist] = History(procs[p].from)
        /\ Len(arrs) >= 2
        /\ arrs[1] = <<>>

\* C24: for every turn sequence and every window size, sanitizeHistory applied
\* to its own result, with the same window size, gives that result again.
C24_Idempotent ==
    fnDone => sanitizeHistory(fnOut, fnIn.maxTurns) = fnOut

\* C24 witness: the window cut the sequence, a leading model turn was skipped
\* and something was left
C24_Witness ==
    /\ fnDone
    /\ fnIn.maxTurns > 0
    /\ Len(fnIn.raw) > fnIn.maxTurns
    /\ fnIn.raw[Len(fnIn.raw) - fnIn.maxTurns + 1].role = "model"
    /\ Len(fnOut) = 2
    /\ sanitizeHistory(fnOut, fnIn.maxTurns) = fnOut

C26_PositiveWindow ==
    (fnDone /\ fnIn.maxTurns >= 1) =>
        /\ IsSubseq(fnOut, LastN(fnIn.raw, fnIn.maxTurns))
        /\ Len(fnOut) % 2 = 0
        /\ fnIn.raw = <<>> => fnOut = <<>>
        /\ (Len(fnIn.raw) = 1 /\ fnIn.raw[1].role = "model") => fnOut = <<>>

\* C26 witness: the sequence is longer than the window, the window holds two
\* adjacent turns of one role, and two turns are left
C26_Witness ==
    /\ fnDone
    /\ fnIn.maxTurns >= 3
    /\ Len(fnIn.raw) > fnIn.maxTurns
    /\ \E i \in (Len(fnIn.raw) - fnIn.maxTurns + 1)..(Len(fnIn.raw) - 1) :
          fnIn.raw[i].role = fnIn.raw[i + 1].role
    /\ Len(fnOut) = 2
    /\ IsSubseq(fnOut, LastN(fnIn.raw, fnIn.maxTurns))

\* C26 as stated: the same for every window size, 0 included: the last 0 turns
\* are no turns, so the result for window size 0 is empty.
C26_AsStated ==
    fnDone =>
        /\ IsSubseq(fnOut, LastN(fnIn.raw, fnIn.maxTurns))
        /\ Len(fnOut) % 2 = 0
        /\ fnIn.raw = <<>> => fnOut = <<>>
        /\ (Len(fnIn.raw) = 1 /\ fnIn.raw[1].role = "model") => fnOut = <<>>

\* C27: a handler makes at most one request to the completion service: it has
\* one pending exactly while it waits for the answer, on an engine route, and
\* none before or after, and no step of the handler makes another, whether the
\* request was answered, answered with the empty string or failed.  An empty
\* answer is taken as any other: the step that receives it appends a model turn
\* with the empty text, finds no marker and issues one send of the empty text.
C27_OneRequest ==
    /\ [](\A p \in Procs :
             /\ procs[p].ncalls = (IF procs[p].route \in {"freeform", "capStep", "capSelect"}
                                   THEN 1 ELSE 0)
             /\ Len(procs[p].call) = (IF procs[p].pc = "chat" THEN 1 ELSE 0)
             /\ procs[p].pc = "chat" => ~procs[p].answered /\ ~procs[p].threw)
    /\ [][\A p \in DOMAIN procs :
             (OwnStep(p) /\ Len(procs') = Len(procs))
             => /\ procs'[p].ncalls = procs[p].ncalls
                /\ procs'[p].call = <<>>
                /\ procs[p].pc = "chat"
                      => /\ procs'[p].pc # "chat"
                         /\ procs'[p].answered # procs'[p].threw
                /\ (procs[p].pc = "chat" /\ procs'[p].answered /\ procs'[p].reply = <<>>)
                      => /\ arrs'[procs[p].hist]
                               = Append(arrs[procs[p].hist], Turn("model", <<>>))
                         /\ ~procs'[p].isDone
                         /\ procs'[p].sends = << <<>> >>
                         /\ procs'[p].pc
                               = (IF procs[p].route = "freeform" THEN "sendLast"
                                  ELSE "sendReply")
         ]_vars

\* C27 witness: a capability step was answered with the empty string: the empty
\* text is being sent and the history ends with the empty model turn
C27_Witness ==
    \E p \in Procs :
        /\ procs[p].route = "capStep"
        /\ procs[p].answered
        /\ procs[p].reply = <<>>
        /\ procs[p].pc = "sendReply"
        /\ procs[p].ncalls = 1
        /\ ~procs[p].overlap
        /\ History(procs[p].from)[Len(History(procs[p].from))] = Turn("model", <<>>)

\* C28: in every reachable state the history of every registered session, when
\* not empty, starts with a user turn and has no two adjacent turns of one role.
C28_StoredShape ==
    \A from \in Senders :
        Registered(from) =>
            LET h == History(from)
            IN  /\ h # <<>> => h[1].role = "user"
                /\ \A i \in 1..(Len(h) - 1) : h[i].role # h[i + 1].role

\* the bodies that are the token of a capability once trimmed
TokenBodies == {body \in Bodies : MsgOf(body) \in DOMAIN CAPABILITY_MAP}

\* C29: in the earlier variant, a message that is the token of another
\* capability and finds a capability in progress is taken as a step of that
\* capability: currentCap stays, the history keeps its turns and gets the
\* message as a user turn.
C29_EarlierMidCapKeeps ==
    [][\A from \in Senders, body \in TokenBodies :
          (/\ nmsgs' = nmsgs + 1
           /\ Registered(from)
           /\ Session(from).mode = "demo"
           /\ ~Session(from).isNew
           /\ Session(from).currentCap \in CapIds
           /\ CAPABILITY_MAP[MsgOf(body)] # Session(from).currentCap
           /\ SmsEarlier(from, body))
          => /\ procs'[Len(procs')].route = "capStep"
             /\ sessions' = sessions
             /\ Session(from)'.currentCap = Session(from).currentCap
             /\ History(from)' = Append(History(from), Turn("user", MsgOf(body)))
      ]_vars

\* C30: in the earlier variant, the prior turns of every request pending at the
\* completion service start with a user turn when there are any and have no two
\* adjacent turns of one role.
C30_EarlierPriorTurns ==
    \A p \in Procs :
        procs[p].pc = "chat" =>
            LET h == procs[p].call[1].history
            IN  /\ h # <<>> => h[1].role = "user"
                /\ \A i \in 1..(Len(h) - 1) : h[i].role # h[i + 1].role

(***************************************************************************)
(* The Redis-backed webhook (src/index.js, first program).  The session of *)
(* a phone is two keys of the Redis server, user:<phone>:mode and          *)
(* user:<phone>:history, each set with a time to live of SESSION_TTL       *)
(* seconds.  All commands travel over one connection, so they take effect  *)
(* in the order they are issued; `redis` lists the live keys in the order  *)
(* they were last set.  A request is suspended at every await; `reqs`      *)
(* keeps each request with its position, and its outcome once it is over.  *)
(***************************************************************************)
\* const SESSION_TTL = 60 * 60 * 24, in seconds
SESSION_TTL == 86400

\* const k = (phone, type) => `user:${phone}:${type}`
Key(phone, type) == <<"user:", phone, ":", type>>

HasKey(R, key) == \E i \in 1..Len(R) : R[i].key = key

\* redis.get(key): the value, null when the key is absent
redisGet(R, key) ==
    IF HasKey(R, key) THEN (CHOOSE e \in {R[i] : i \in 1..Len(R)} : e.key = key).val
    ELSE Null

\* redis.del(key)
redisDel(R, key) == SelectSeq(R, LAMBDA e : e.key # key)

\* redis.set(key, val, { EX: ex }): the key is the one set last, its time to live starts anew
redisSet(R, key, val, ex) == Append(redisDel(R, key), [key |-> key, val |-> val, ex |-> ex])

\* return (await redis.get(k(phone, "mode"))) || "demo"
getMode(R, phone) ==
    IF HasKey(R, Key(phone, "mode")) THEN redisGet(R, Key(phone, "mode")) ELSE "demo"

\* return !(await redis.get(k(phone, "history")))
isNewUser(R, phone) == ~HasKey(R, Key(phone, "history"))

\* return data ? JSON.parse(data) : []
getHistory(R, phone) ==
    IF HasKey(R, Key(phone, "history")) THEN redisGet(R, Key(phone, "history")) ELSE <<>>

\* redis.set(k(phone, "history"), JSON.stringify(history.slice(-30)), { EX: SESSION_TTL })
saveHistory(R, phone, history) ==
    redisSet(R, Key(phone, "history"), LastN(history, 30), SESSION_TTL)

FIRST_MESSAGE == <<"__FIRST_MESSAGE__">>

\* bodies of the messages sent to the Redis-backed webhook (req.body.text)
RedisBodies ==
    { Body(<<" ","a","d","m","i","n"," ","R","e","s","e","t"," ">>),
      Body(<<"a","d","m","i","n"," ","f","r","e","e","f","o","r","m">>),
      Body(ADMIN_DEMO),
      Body(<<"1">>),
      Body(<<" ","2","\n">>) }

\* a request of the webhook: where it is suspended, and what it holds
RIdle ==
    [pc |-> "done", from |-> "", route |-> "", system |-> "",
     history |-> <<>>, reply |-> <<>>]

Reqs == DOMAIN reqs

\* the requests that are not over
Pending == {r \in Reqs : reqs[r].pc \notin {"done", "noticed", "rejected"}}

\* the statements of app.post("/sms") up to the first await: an administrative
\* command starts resetSession with redis.del of the mode key
AdminStart(R, from, route) ==
    [redis |-> redisDel(R, Key(from, "mode")),
     req |-> [RIdle EXCEPT !.pc = "delHistory", !.from = from, !.route = route]]

\* getSimiResponse up to the completion call: the three reads are issued together,
\* the user turn is pushed on the parsed history
getSimiResponseStart(R, phone, incomingMsg) ==
    LET mode == getMode(R, phone)
        newUser == isNewUser(R, phone)
        history == getHistory(R, phone)
        userContent == IF mode = "demo" /\ newUser THEN FIRST_MESSAGE ELSE incomingMsg
    IN  [redis |-> R,
         req |-> [RIdle EXCEPT !.pc = "ai", !.from = phone, !.route = "chat",
                               !.system = IF mode = "demo" THEN "DEMO_PROMPT"
                                          ELSE "FREEFORM_PROMPT",
                               !.history = Append(history, Turn("user", userContent))]]

\* app.post("/sms") from the request to its first suspension
RedisBegin(R, from, body) ==
    LET text == trim(body.text)
        cmd == toUpperCase(text)
    IN  IF cmd = ADMIN_RESET THEN AdminStart(R, from, "reset")
        ELSE IF cmd = ADMIN_FREEFORM THEN AdminStart(R, from, "toFreeform")
        ELSE IF cmd = ADMIN_DEMO THEN AdminStart(R, from, "toDemo")
        ELSE getSimiResponseStart(R, from, text)

\* a message arrives at the webhook
RedisSms(from, body) ==
    /\ nmsgs < MaxMsgs
    /\ Cardinality(Pending) < MaxInFlight
    /\ LET b == RedisBegin(redis, from, body)
       IN  /\ redis' = b.redis
           /\ reqs' = Append(reqs, b.req)
    /\ nmsgs' = nmsgs + 1
    /\ UNCHANGED <<sessions, objs, arrs, procs, fnIn, fnOut, fnDone>>

\* resetSession goes on after its first redis.del: the history key is deleted;
\* ADMIN RESET then sends its confirmation, the mode commands set the mode key first
DelHistory(r) ==
    /\ reqs[r].pc = "delHistory"
    /\ redis' = redisDel(redis, Key(reqs[r].from, "history"))
    /\ reqs' = [reqs EXCEPT ![r].pc = IF reqs[r].route = "reset" THEN "send" ELSE "setMode"]
    /\ UNCHANGED <<sessions, objs, arrs, procs, nmsgs, fnIn, fnOut, fnDone>>

\* await redis.set(k(from, "mode"), ..., { EX: SESSION_TTL }), then the confirmation is sent
SetMode(r) ==
    /\ reqs[r].pc = "setMode"
    /\ redis' = redisSet(redis, Key(reqs[r].from, "mode"),
                         IF reqs[r].route = "toFreeform" THEN "freeform" ELSE "demo",
                         SESSION_TTL)
    /\ reqs' = [reqs EXCEPT ![r].pc = "send"]
    /\ UNCHANGED <<sessions, objs, arrs, procs, nmsgs, fnIn, fnOut, fnDone>>

\* ai.messages.create answers: the reply is pushed on the request's own copy of the
\* history, the copy is saved, and the reply is sent
AiReturn(r, reply) ==
    /\ reqs[r].pc = "ai"
    /\ LET history == Append(reqs[r].history, Turn("assistant", reply))
       IN  /\ redis' = saveHistory(redis, reqs[r].from, history)
           /\ reqs' = [reqs EXCEPT ![r].pc = "send", ![r].history = history,
                                   ![r].reply = reply]
    /\ UNCHANGED <<sessions, objs, arrs, procs, nmsgs, fnIn, fnOut, fnDone>>

\* ai.messages.create fails inside the try block: the catch block sends the notice
AiFail(r) ==
    /\ reqs[r].pc = "ai"
    /\ reqs' = [reqs EXCEPT ![r].pc = "sendError"]
    /\ UNCHANGED <<sessions, objs, arrs, procs, nmsgs, fnIn, fnOut, fnDone, redis>>

\* sendSMS resolves: the handler returns, having sent its reply or confirmation
\* ("done") or the notice of the catch block ("noticed")
RedisSendOk(r) ==
    /\ reqs[r].pc \in {"send", "sendError"}
    /\ reqs' = [reqs EXCEPT ![r].pc = IF reqs[r].pc = "send" THEN "done" ELSE "noticed"]
    /\ UNCHANGED <<sessions, objs, arrs, procs, nmsgs, fnIn, fnOut, fnDone, redis>>

\* sendSMS rejects: the reply send is inside the try block and the catch block sends
\* the notice; the sends of the administrative branches and the send of the catch
\* block are awaited outside any try block, so the promise of the handler rejects
RedisSendFail(r) ==
    /\ reqs[r].pc \in {"send", "sendError"}
    /\ reqs' = [reqs EXCEPT ![r].pc = IF reqs[r].pc = "send" /\ reqs[r].route = "chat"
                                      THEN "sendError" ELSE "rejected"]
    /\ UNCHANGED <<sessions, objs, arrs, procs, nmsgs, fnIn, fnOut, fnDone, redis>>

\* the time to live of a key runs out: of two keys, the one set earlier with a
\* time to live that is not longer runs out first
Expire(i) ==
    /\ i \in 1..Len(redis)
    /\ \A j \in 1..(i - 1) : redis[j].ex > redis[i].ex
    /\ redis' = SubSeq(redis, 1, i - 1) \o SubSeq(redis, i + 1, Len(redis))
    /\ UNCHANGED <<sessions, objs, arrs, procs, nmsgs, fnIn, fnOut, fnDone, reqs>>

NextRedis ==
    \/ \E from \in Senders, body \in RedisBodies : RedisSms(from, body)
    \/ \E r \in Reqs : DelHistory(r)
    \/ \E r \in Reqs : SetMode(r)
    \/ \E r \in Reqs, reply \in Replies : AiReturn(r, reply)
    \/ \E r \in Reqs : AiFail(r)
    \/ \E r \in Reqs : RedisSendOk(r)
    \/ \E r \in Reqs : RedisSendFail(r)
    \/ \E i \in 1..Len(redis) : Expire(i)

SpecRedis == Init /\ [][NextRedis]_vars

\* the same webhook when every message is plain text, the completion service
\* answers and every send succeeds, with no key reaching its time to live
ChatBodies == { Body(<<"1">>), Body(<<" ","2","\n">>) }

NextRedisChat ==
    \/ \E from \in Senders, body \in ChatBodies : RedisSms(from, body)
    \/ \E r \in Reqs, reply \in Replies : AiReturn(r, reply)
    \/ \E r \in Reqs : RedisSendOk(r)

SpecRedisChat == Init /\ [][NextRedisChat]_vars

(***************************************************************************)
(* C31.  In the Redis-backed webhook a failed outbound send never leaves   *)
(* the handler as an unhandled error: no request ends with its promise     *)
(* rejected, in the administrative branches, for the reply and for the     *)
(* notice of the catch block.                                              *)
(***************************************************************************)
C31_SendFailureContained == \A r \in Reqs : reqs[r].pc # "rejected"

(***************************************************************************)
(* C32.  In the Redis-backed variant the expiry of the idle timeout takes  *)
(* the session as a whole: when the mode key of a sender runs out, the     *)
(* history key of the sender is absent, so a session set to freeform does  *)
(* not fall back to demo mode with its history still stored.               *)
(***************************************************************************)
C32_ExpiryWholesale ==
    [][\A ph \in Phones :
          (/\ reqs' = reqs
           /\ HasKey(redis, Key(ph, "mode"))
           /\ ~HasKey(redis', Key(ph, "mode")))
          => ~HasKey(redis', Key(ph, "history"))]_vars

(***************************************************************************)
(* C33.  In the Redis-backed variant, once two messages of one sender have *)
(* both been processed with success, the saved history holds the user turn *)
(* and the reply of each of them, whatever the interleaving of their       *)
(* reads, completion calls and writes.                                     *)
(***************************************************************************)
\* the sequence a holds the turns u, m next to each other
HoldsExchange(a, u, m) == \E i \in 1..(Len(a) - 1) : a[i] = u /\ a[i + 1] = m

\* the saved history holds the exchange of the request r
Saved(r) ==
    LET h == reqs[r].history
    IN  HoldsExchange(getHistory(redis, reqs[r].from), h[Len(h) - 1], h[Len(h)])

C33_BothExchangesSaved ==
    \A p \in Reqs, q \in Reqs :
        (/\ p # q
         /\ reqs[p].from = reqs[q].from
         /\ reqs[p].pc = "done" /\ reqs[p].route = "chat"
         /\ reqs[q].pc = "done" /\ reqs[q].route = "chat")
        => Saved(p) /\ Saved(q)

(***************************************************************************)
(* C34.  The insight message sent on completion is the insight of the      *)
(* capability whose step produced the completion marker, under every       *)
(* interleaving of the messages of one sender: a handler that waits for    *)
(* the send of its insight message has sent the insight of the capability  *)
(* its own step ran, never an undefined insight.  Stated for the steps of  *)
(* the capabilities of the menu.                                           *)
(***************************************************************************)
C34_InsightOfCompleted ==
    \A p \in Procs :
        (procs[p].pc = "sendInsight" /\ procs[p].cap \in CapIds)
        => procs[p].sends[Len(procs[p].sends)] = InsightMessage(procs[p].cap)

(***************************************************************************)
(* C35.  Whenever a capability step detects the completion marker,         *)
(* currentCap of the sender's session is null once the handling of that    *)
(* message has ended, also when the send of the cleaned reply or of the    *)
(* insight message fails.  Stated for a handler that was alone among the   *)
(* messages of its sender.                                                 *)
(***************************************************************************)
C35_CompletedClearsCap ==
    [][\A p \in DOMAIN procs, from \in Senders :
          (/\ procs' = Return(procs, p)
           /\ procs[p].from = from
           /\ procs[p].route \in {"capStep", "capSelect"}
           /\ procs[p].isDone
           /\ ~procs[p].overlap)
          => Session(from)'.currentCap = Null
      ]_vars

(***************************************************************************)
(* C36.  After an admin reset or a menu return of a sender was processed   *)
(* while an earlier message of the sender is suspended on the completion   *)
(* service, the registered session of the sender keeps its empty history   *)
(* and its null currentCap until a later message arrives: no step of a     *)
(* handler in flight, the late answer of the earlier step included,        *)
(* appends to the new history or sets currentCap.                          *)
(***************************************************************************)
C36_LateReplyKeptOut ==
    [][\A from \in Senders :
          (/\ nmsgs' = nmsgs
           /\ Registered(from)
           /\ Session(from).currentCap = Null
           /\ History(from) = <<>>)
          => /\ Registered(from)'
             /\ Session(from)'.currentCap = Null
             /\ History(from)' = <<>>
      ]_vars

\* the answer of a step has come after "0" or a reset emptied the session: the
\* handler of the step waits for its send, the session is empty still
C36_Witness ==
    \E p \in Procs :
        /\ procs[p].answered
        /\ procs[p].route \in {"capStep", "capSelect"}
        /\ procs[p].pc = "sendReply"
        /\ procs[p].sess = sessions[procs[p].from]
        /\ Session(procs[p].from).currentCap = Null
        /\ History(procs[p].from) = <<>>

Resolve ==
    \E p \in Procs :
        \/ \E reply \in Replies : ChatReturn(p, reply)
        \/ ChatFail(p)
        \/ SendOk(p)
        \/ SendFail(p)

\* one body for each branch of handleMessage: the three commands, "0", a token,
\* and a text that is none of them
LiveBodies ==
    { Body(<<" ","a","d","m","i","n"," ","R","e","s","e","t"," ">>),
      Body(<<"a","d","m","i","n"," ","f","r","e","e","f","o","r","m">>),
      Body(ADMIN_DEMO),
      Body(<<"0">>),
      Body(<<"1">>),
      Body(<<"A","D","M","I","N"," ","R","E","S","E","T","!">>) }

NextLive ==
    \/ \E from \in Senders, body \in LiveBodies : Sms(from, body)
    \/ \E p \in Procs, reply \in Replies : ChatReturn(p, reply)
    \/ \E p \in Procs : ChatFail(p)
    \/ \E p \in Procs : SendOk(p)
    \/ \E p \in Procs : SendFail(p)

SpecLive == Init /\ [][NextLive]_vars /\ WF_vars(Resolve)

(***************************************************************************)
(* C38.  Every inbound message with a sender leads to at least one         *)
(* outbound send attempt to the sender, provided every call of the         *)
(* completion service and every send returns or fails: a handler is        *)
(* without a send attempt only while it waits for the completion service,  *)
(* it does not end without one, and again and again every handler in       *)
(* flight has made one.                                                    *)
(***************************************************************************)
C38_EventuallySends ==
    /\ [](\A p \in Procs : procs[p].sends = <<>> => procs[p].pc = "chat")
    /\ [][\A p \in DOMAIN procs : procs' = Return(procs, p) => procs[p].sends # <<>>]_vars
    /\ []<>(\A p \in Procs : procs[p].sends # <<>>)

\* the call of a step has failed and the one send attempt of the handler is the notice
C38_Witness ==
    \E p \in Procs :
        /\ procs[p].pc = "sendError"
        /\ procs[p].route \in {"capStep", "capSelect", "freeform"}
        /\ procs[p].sends = <<ErrorNotice>>

(***************************************************************************)
(* C39.  The fallback menu branch and the first-contact branch leave the   *)
(* session as it is otherwise: a message routed to the fallback changes no *)
(* field of the session (mode, history, isNew, currentCap), a first        *)
(* contact changes isNew only (on the session getSession made for a new    *)
(* sender, or on the registered one), and neither appends a turn, at the   *)
(* arrival or at a later step of the handler.                              *)
(***************************************************************************)
C39_MenuBranchesFrame ==
    [][/\ \A from \in Senders :
             (/\ nmsgs' = nmsgs + 1
              /\ procs'[Len(procs')].from = from
              /\ procs'[Len(procs')].route \in {"fallback", "firstContact"})
             => IF procs'[Len(procs')].route = "fallback"
                THEN /\ Registered(from)
                     /\ UNCHANGED <<sessions, objs, arrs>>
                ELSE IF Registered(from)
                THEN /\ Session(from).isNew
                     /\ objs' = [objs EXCEPT ![sessions[from]].isNew = FALSE]
                     /\ UNCHANGED <<sessions, arrs>>
                ELSE /\ sessions' = [sessions EXCEPT ![from] = Len(objs) + 1]
                     /\ objs' = Append(objs, [mode |-> "demo", history |-> Len(arrs) + 1,
                                              isNew |-> FALSE, currentCap |-> Null])
                     /\ arrs' = Append(arrs, <<>>)
       /\ \A p \in DOMAIN procs :
             (OwnStep(p) /\ procs[p].route \in {"fallback", "firstContact"})
             => UNCHANGED <<sessions, objs, arrs>>
      ]_vars

\* a fallback menu is being sent for a session that holds the turns of a demo
C39_Witness ==
    \E p \in Procs :
        /\ procs[p].route = "fallback"
        /\ procs[p].pc = "sendLast"
        /\ procs[p].sess = sessions[procs[p].from]
        /\ History(procs[p].from) # <<>>

====
